---- MODULE Spec2Model ----
(***************************************************************************)
(* SmartPowerManager v1.7.3: the schedule store, the conflict check, the   *)
(* next-event resolver, the monitor loop and the confirmation dialog of    *)
(* the desktop application.                                                *)
(*                                                                         *)
(* Time is counted in whole seconds from a Monday 00:00:00 (Python's       *)
(* weekday() gives 0 for Monday).  A "%Y-%m-%d %H:%M" string is modelled   *)
(* by the index of the minute it names: strftime drops the seconds,        *)
(* strptime yields second 0 of that minute.                                *)
(***************************************************************************)
EXTENDS Integers, Sequences, FiniteSets, TLC

\* ---------------------------------------------------------------- bounds
MaxId == 2          \* entries the user adds in one run
MaxLoaded == 2      \* weekly plus one-time entries in a loaded state file
MaxSkips == 1       \* occurrences the user skips in one run of the monitor
MaxCancels == 5     \* occurrences the user skips in a row with "cancel next"
MaxClock == 122     \* last second (of Monday) the confirmation dialogs are followed to

\* ------------------------------------------------------ program constants
ACTION_SHUTDOWN == "shutdown"
ACTION_RESTART == "restart"
Actions == {ACTION_SHUTDOWN, ACTION_RESTART}
HOURS_LATER_OPTIONS == {1, 3, 6, 9, 12}
DefaultDailyHour == 23
MatchWindow == 60
CountdownStart == 60
ProbeLimit == 5

\* ------------------------------------------------------------------ time
MakeTime(d, h, m, s) == d * 86400 + h * 3600 + m * 60 + s

weekday(t) == (t \div 86400) % 7
hour(t) == (t % 86400) \div 3600
minute(t) == (t % 3600) \div 60
\* now.replace(hour=h, minute=m, second=0, microsecond=0)
replace(t, h, m) == (t \div 86400) * 86400 + h * 3600 + m * 60
strftime(t) == t \div 60
strptime(s) == s * 60
Abs(x) == IF x < 0 THEN -x ELSE x

VARIABLES now, daily_schedule, weekly_schedules, onetime_schedules, skipped_dates,
          debug_mode, load_failed, file, nextId,
          last_minute, polled, pending, showQueued, result,
          dialogs, osActions, displayHint, lastOp,
          pico_settings, disclaimer_accepted,
          targetMac, dailyWakeup, weeklySchedules, onetimeSchedules,
          lastCheckedMinute, wolSent, udp, firmware, sent,
          request, response,
          ui, poller, workers

storeVars == <<daily_schedule, weekly_schedules, onetime_schedules, skipped_dates,
               debug_mode, load_failed, file, nextId>>
\* polled is the minute (as strftime writes it) of the monitor thread's last
\* pass, -1 before the first.
monitorVars == <<last_minute, polled, pending, showQueued>>
gateVars == <<dialogs, osActions, displayHint>>
\* The desktop's copy of the wake schedule, the device's own state (the
\* lists stand for the first weeklyCount and onetimeCount slots of the
\* arrays) and the HTTP request and response between the two.
picoVars == <<pico_settings, disclaimer_accepted>>
deviceVars == <<targetMac, dailyWakeup, weeklySchedules, onetimeSchedules,
                lastCheckedMinute, wolSent, udp, firmware, sent>>
netVars == <<request, response>>
syncVars == <<picoVars, deviceVars, netVars>>
\* The two threads that write the store, each with the step it is at and
\* the local names it holds: the UI thread runs the handlers, the monitor
\* thread runs _monitor_loop. workers are the threads started for
\* _sync_worker, one for each sync request, each with its arguments and
\* the body it has read.
threadVars == <<ui, poller, workers>>
vars == <<now, storeVars, monitorVars, gateVars, result, lastOp, syncVars, threadVars>>

\* A name bound to a list: either the list self.onetime_schedules is bound
\* to now (appends and changes of its entries show through it), or a list
\* that self.onetime_schedules was bound to before it was bound to a new one.
Live == [live |-> TRUE, obj |-> <<>>]
Retired(list) == [live |-> FALSE, obj |-> list]
NoCall == [op |-> "", arg |-> 0]
UiIdle == [pc |-> "idle", call |-> NoCall, kept |-> {}, data |-> Live, last |-> NoCall, n |-> 0]
PollerIdle == [pc |-> "idle", t |-> 0, loop |-> Live, id |-> 0, action |-> "", trigger |-> <<>>,
               data |-> Live, n |-> 0]

other(action) == IF action = ACTION_SHUTDOWN THEN ACTION_RESTART ELSE ACTION_SHUTDOWN

\* The state written by save(): the dictionary dumped to the state file.
data(daily, weekly, onetime, pico, dbg, disclaimer, skipped) ==
    [daily |-> daily, weekly_schedules |-> weekly, onetime |-> onetime,
     pico_settings |-> pico, debug_mode |-> dbg, disclaimer_accepted |-> disclaimer,
     skipped_dates |-> skipped]

\* What the handlers of the schedule tabs write: they leave pico_settings
\* and disclaimer_accepted as they are.
snapshot(daily, weekly, onetime, skipped, dbg) ==
    data(daily, weekly, onetime, pico_settings, dbg, disclaimer_accepted, skipped)

save_stale(daily, weekly, onetime, skipped, dbg) == file
save_always(daily, weekly, onetime, skipped, dbg) ==
    snapshot(daily, weekly, onetime, skipped, dbg)
save(daily, weekly, onetime, skipped, dbg) ==
    IF load_failed THEN file ELSE snapshot(daily, weekly, onetime, skipped, dbg)

\* save() after a handler of the wake-up tab has changed pico_settings.
save_pico(pico) ==
    IF load_failed THEN file
    ELSE data(daily_schedule, weekly_schedules, onetime_schedules, pico, debug_mode,
              disclaimer_accepted, skipped_dates)

Indices(seq) == 1..Len(seq)

\* key in d, and d.get(key, default)
Has(d, key) == key \in DOMAIN d
Get(d, key, default) == IF Has(d, key) THEN d[key] ELSE default
FirstIndex(seq, P(_)) ==
    IF \E i \in Indices(seq) : P(seq[i])
    THEN CHOOSE i \in Indices(seq) : P(seq[i]) /\ \A j \in 1..(i - 1) : ~P(seq[j])
    ELSE 0

\* ------------------------------------------------------- ScheduleManager
NoConflict == "None"

\* check_conflict: the kind of the first colliding entry of the other action.
check_conflict(action_type, schedule_type, time_info) ==
    LET other_action == other(action_type)
        other_daily == daily_schedule[other_action]
        dailyHit(h, m) == other_daily.enabled /\ other_daily.hour = h /\ other_daily.minute = m
    IN  CASE schedule_type = "daily" ->
               IF dailyHit(time_info.hour, time_info.minute) THEN "daily" ELSE NoConflict
          [] schedule_type = "weekly" ->
               IF \E i \in Indices(weekly_schedules) :
                     /\ weekly_schedules[i].action = other_action
                     /\ weekly_schedules[i].weekday = time_info.weekday
                     /\ weekly_schedules[i].hour = time_info.hour
                     /\ weekly_schedules[i].minute = time_info.minute
               THEN "weekly"
               ELSE IF dailyHit(time_info.hour, time_info.minute) THEN "daily" ELSE NoConflict
          [] schedule_type = "onetime" ->
               LET target_dt == strptime(time_info.datetime)
               IN  IF \E i \in Indices(onetime_schedules) :
                         /\ onetime_schedules[i].action = other_action
                         /\ ~onetime_schedules[i].executed
                         /\ strptime(onetime_schedules[i].datetime) = target_dt
                   THEN "onetime"
                   ELSE IF \E i \in Indices(weekly_schedules) :
                             /\ weekly_schedules[i].action = other_action
                             /\ weekly_schedules[i].weekday = weekday(target_dt)
                             /\ weekly_schedules[i].hour = hour(target_dt)
                             /\ weekly_schedules[i].minute = minute(target_dt)
                        THEN "weekly"
                        ELSE IF dailyHit(hour(target_dt), minute(target_dt)) THEN "daily"
                             ELSE NoConflict

\* The parts of the state no store operation touches.
runtimeUnchanged ==
    /\ result' = [called |-> FALSE, ret |-> FALSE, kind |-> "", action |-> "", id |-> 0,
                  skipped |-> FALSE]
    /\ UNCHANGED <<syncVars, now, debug_mode, load_failed, threadVars, monitorVars, gateVars>>

add_weekly(action, wd, h, m) ==
    LET schedule == [id |-> nextId, action |-> action, weekday |-> wd, hour |-> h, minute |-> m]
        weekly == Append(weekly_schedules, schedule)
    IN  /\ weekly_schedules' = weekly
        /\ nextId' = nextId + 1
        /\ file' = save(daily_schedule, weekly, onetime_schedules, skipped_dates, debug_mode)
        /\ UNCHANGED <<daily_schedule, onetime_schedules, skipped_dates>>

remove_weekly(schedule_id) ==
    LET weekly == SelectSeq(weekly_schedules, LAMBDA s : s.id # schedule_id)
    IN  /\ weekly_schedules' = weekly
        /\ file' = save(daily_schedule, weekly, onetime_schedules, skipped_dates, debug_mode)
        /\ UNCHANGED <<daily_schedule, onetime_schedules, skipped_dates, nextId>>

add_onetime(action, dt_str, source) ==
    LET schedule == [id |-> nextId, action |-> action, datetime |-> dt_str,
                     executed |-> FALSE, source |-> source]
        onetime == Append(onetime_schedules, schedule)
    IN  /\ onetime_schedules' = onetime
        /\ nextId' = nextId + 1
        /\ file' = save(daily_schedule, weekly_schedules, onetime, skipped_dates, debug_mode)
        /\ UNCHANGED <<daily_schedule, weekly_schedules, skipped_dates>>

add_onetime_hours_later(action, hours) ==
    add_onetime(action, strftime(now + hours * 3600), "quick")

remove_onetime_resetting(schedule_id) ==
    LET kept == SelectSeq(onetime_schedules, LAMBDA s : s.id # schedule_id)
        onetime == [i \in DOMAIN kept |-> [kept[i] EXCEPT !.executed = FALSE]]
    IN  /\ onetime_schedules' = onetime
        /\ file' = save(daily_schedule, weekly_schedules, onetime, skipped_dates, debug_mode)
        /\ UNCHANGED <<daily_schedule, weekly_schedules, skipped_dates, nextId>>
remove_onetime(schedule_id) ==
    LET onetime == SelectSeq(onetime_schedules, LAMBDA s : s.id # schedule_id)
    IN  /\ onetime_schedules' = onetime
        /\ file' = save(daily_schedule, weekly_schedules, onetime, skipped_dates, debug_mode)
        /\ UNCHANGED <<daily_schedule, weekly_schedules, skipped_dates, nextId>>

clear_executed_onetime(action) ==
    LET onetime == SelectSeq(onetime_schedules, LAMBDA s : ~(s.action = action /\ s.executed))
    IN  /\ onetime_schedules' = onetime
        /\ file' = save(daily_schedule, weekly_schedules, onetime, skipped_dates, debug_mode)
        /\ UNCHANGED <<daily_schedule, weekly_schedules, skipped_dates, nextId>>

InSeq(x, seq) == \E i \in Indices(seq) : seq[i] = x
NoResult == [called |-> FALSE, ret |-> FALSE, kind |-> "", action |-> "", id |-> 0, skipped |-> FALSE]
NoEvent == [dt |-> -1, type |-> "None", action |-> "", id |-> 0]

\* for _ in range(5): the first of five occurrences, step seconds apart from
\* base, whose formatted minute is not in skipped_dates; -1 when all five are.
probe_six(base, step) ==
    LET free == {k \in 0..ProbeLimit : ~InSeq(strftime(base + k * step), skipped_dates)}
    IN  IF free = {} THEN -1
        ELSE base + (CHOOSE k \in free : \A l \in free : k <= l) * step
probe(base, step) ==
    LET free == {k \in 0..(ProbeLimit - 1) : ~InSeq(strftime(base + k * step), skipped_dates)}
    IN  IF free = {} THEN -1
        ELSE base + (CHOOSE k \in free : \A l \in free : k <= l) * step

\* get_next_event_info at time t: the candidates in the order the three
\* loops append them, then the first one with the least timestamp (the sort
\* is stable).
candidates(t) ==
    LET one(s) == IF /\ ~s.executed
                     /\ strptime(s.datetime) > t
                     /\ ~InSeq(strftime(strptime(s.datetime)), skipped_dates)
                  THEN [dt |-> strptime(s.datetime), type |-> "onetime",
                        action |-> s.action, id |-> s.id]
                  ELSE NoEvent
        week(s) == LET target_time == replace(t, s.hour, s.minute)
                       days_ahead == s.weekday - weekday(t)
                       ahead == IF days_ahead < 0 \/ (days_ahead = 0 /\ target_time <= t)
                                THEN days_ahead + 7 ELSE days_ahead
                       next_weekly == probe(target_time + ahead * 86400, 7 * 86400)
                   IN  IF next_weekly = -1 THEN NoEvent
                       ELSE [dt |-> next_weekly, type |-> "weekly", action |-> s.action, id |-> s.id]
        day(action) == LET setting == daily_schedule[action]
                           base == replace(t, setting.hour, setting.minute)
                           target_time == probe(IF base <= t THEN base + 86400 ELSE base, 86400)
                       IN  IF ~setting.enabled \/ target_time = -1 THEN NoEvent
                           ELSE [dt |-> target_time, type |-> "daily", action |-> action, id |-> 0]
        all == [i \in Indices(onetime_schedules) |-> one(onetime_schedules[i])]
               \o [i \in Indices(weekly_schedules) |-> week(weekly_schedules[i])]
               \o <<day(ACTION_SHUTDOWN), day(ACTION_RESTART)>>
    IN  SelectSeq(all, LAMBDA c : c # NoEvent)

\* The same without candidates.sort: the first candidate appended.
get_next_event_info_unsorted(t) ==
    LET cs == candidates(t)
    IN  IF cs = <<>> THEN NoEvent ELSE cs[1]

get_next_event_info(t) ==
    LET first(cs) ==
            LET least(c) == \A j \in Indices(cs) : c.dt <= cs[j].dt
            IN  IF cs = <<>> THEN NoEvent ELSE cs[FirstIndex(cs, least)]
    IN  CHOOSE ev \in {first(cs) : cs \in {candidates(t)}} : TRUE

\* _execute_action: in debug mode the action is only logged.
_execute_action_always(action, trigger_type) ==
    pending' = [active |-> TRUE, action |-> action, trigger |-> trigger_type]
_execute_action(action, trigger_type) ==
    pending' = IF debug_mode THEN pending
               ELSE [active |-> TRUE, action |-> action, trigger |-> trigger_type]

DailyOrder == <<ACTION_SHUTDOWN, ACTION_RESTART>>

\* The three loops of check_and_execute, each up to its first match.
onetime_match_any(t) ==
    FirstIndex(onetime_schedules, LAMBDA s : Abs(t - strptime(s.datetime)) < MatchWindow)
onetime_match_inclusive(t) ==
    FirstIndex(onetime_schedules,
               LAMBDA s : ~s.executed /\ Abs(t - strptime(s.datetime)) <= MatchWindow)
onetime_match(t) ==
    FirstIndex(onetime_schedules,
               LAMBDA s : ~s.executed /\ Abs(t - strptime(s.datetime)) < MatchWindow)
weekly_match(t) ==
    FirstIndex(weekly_schedules,
               LAMBDA s : weekday(t) = s.weekday /\ hour(t) = s.hour /\ minute(t) = s.minute)
daily_match(t) ==
    FirstIndex(DailyOrder,
               LAMBDA a : /\ daily_schedule[a].enabled
                          /\ hour(t) = daily_schedule[a].hour
                          /\ minute(t) = daily_schedule[a].minute)

\* if dt_str in self.skipped_dates
never_skipped(t) == FALSE
is_skipped(t) == InSeq(strftime(t), skipped_dates)

\* The order of the loops and their returns: the kind and the index of the
\* match at which the call stops.
first_match_weekly_first(t) ==
    IF weekly_match(t) # 0 THEN <<"weekly", weekly_match(t)>>
    ELSE IF onetime_match(t) # 0 THEN <<"onetime", onetime_match(t)>>
    ELSE IF daily_match(t) # 0 THEN <<"daily", daily_match(t)>>
    ELSE <<"", 0>>
first_match(t) ==
    IF onetime_match(t) # 0 THEN <<"onetime", onetime_match(t)>>
    ELSE IF weekly_match(t) # 0 THEN <<"weekly", weekly_match(t)>>
    ELSE IF daily_match(t) # 0 THEN <<"daily", daily_match(t)>>
    ELSE <<"", 0>>

\* The one-time loop marking every entry inside the window before it
\* returns.
check_and_execute_all_due(t) ==
    LET m == first_match(t)
        Res(ret, kind, action, id, skipped) ==
            [called |-> TRUE, ret |-> ret, kind |-> kind, action |-> action, id |-> id,
             skipped |-> skipped]
    IN  CASE m[1] = "onetime" ->
               LET s == onetime_schedules[m[2]]
                   onetime == [i \in DOMAIN onetime_schedules |->
                                  IF /\ ~onetime_schedules[i].executed
                                     /\ t - strptime(onetime_schedules[i].datetime) < MatchWindow
                                     /\ strptime(onetime_schedules[i].datetime) - t < MatchWindow
                                  THEN [onetime_schedules[i] EXCEPT !.executed = TRUE]
                                  ELSE onetime_schedules[i]]
               IN  /\ onetime_schedules' = onetime
                   /\ file' = save(daily_schedule, weekly_schedules, onetime, skipped_dates, debug_mode)
                   /\ _execute_action(s.action, <<"onetime", s.datetime>>)
                   /\ result' = Res(TRUE, "onetime", s.action, s.id, FALSE)
          [] m[1] = "weekly" ->
               LET s == weekly_schedules[m[2]]
               IN  /\ UNCHANGED <<onetime_schedules, file>>
                   /\ IF is_skipped(t)
                      THEN /\ UNCHANGED pending
                           /\ result' = Res(FALSE, "weekly", s.action, s.id, TRUE)
                      ELSE /\ _execute_action(s.action, <<"weekly", s.weekday, s.hour, s.minute>>)
                           /\ result' = Res(TRUE, "weekly", s.action, s.id, FALSE)
          [] m[1] = "daily" ->
               LET action == DailyOrder[m[2]]
                   setting == daily_schedule[action]
               IN  /\ UNCHANGED <<onetime_schedules, file>>
                   /\ IF is_skipped(t)
                      THEN /\ UNCHANGED pending
                           /\ result' = Res(FALSE, "daily", action, 0, TRUE)
                      ELSE /\ _execute_action(action, <<"daily", setting.hour, setting.minute>>)
                           /\ result' = Res(TRUE, "daily", action, 0, FALSE)
          [] OTHER ->
               /\ UNCHANGED <<onetime_schedules, file, pending>>
               /\ result' = Res(FALSE, "", "", 0, FALSE)

\* The check that leaves a matched one-time entry as it is when debug mode
\* is on.
check_and_execute_dry(t) ==
    LET m == first_match(t)
        Res(ret, kind, action, id, skipped) ==
            [called |-> TRUE, ret |-> ret, kind |-> kind, action |-> action, id |-> id,
             skipped |-> skipped]
    IN  CASE m[1] = "onetime" ->
               LET s == onetime_schedules[m[2]]
                   onetime == [onetime_schedules EXCEPT ![m[2]].executed = TRUE]
               IN  /\ onetime_schedules' = IF debug_mode THEN onetime_schedules ELSE onetime
                   /\ file' = IF debug_mode THEN file
                              ELSE save(daily_schedule, weekly_schedules, onetime, skipped_dates,
                                        debug_mode)
                   /\ _execute_action(s.action, <<"onetime", s.datetime>>)
                   /\ result' = Res(TRUE, "onetime", s.action, s.id, FALSE)
          [] m[1] = "weekly" ->
               LET s == weekly_schedules[m[2]]
               IN  /\ UNCHANGED <<onetime_schedules, file>>
                   /\ IF is_skipped(t)
                      THEN /\ UNCHANGED pending
                           /\ result' = Res(FALSE, "weekly", s.action, s.id, TRUE)
                      ELSE /\ _execute_action(s.action, <<"weekly", s.weekday, s.hour, s.minute>>)
                           /\ result' = Res(TRUE, "weekly", s.action, s.id, FALSE)
          [] m[1] = "daily" ->
               LET action == DailyOrder[m[2]]
                   setting == daily_schedule[action]
               IN  /\ UNCHANGED <<onetime_schedules, file>>
                   /\ IF is_skipped(t)
                      THEN /\ UNCHANGED pending
                           /\ result' = Res(FALSE, "daily", action, 0, TRUE)
                      ELSE /\ _execute_action(action, <<"daily", setting.hour, setting.minute>>)
                           /\ result' = Res(TRUE, "daily", action, 0, FALSE)
          [] OTHER ->
               /\ UNCHANGED <<onetime_schedules, file, pending>>
               /\ result' = Res(FALSE, "", "", 0, FALSE)

\* check_and_execute at time t.  result tells what the call made by the step
\* just taken did; after a step that made no call it is NoResult.
check_and_execute(t) ==
    LET m == first_match(t)
        Res(ret, kind, action, id, skipped) ==
            [called |-> TRUE, ret |-> ret, kind |-> kind, action |-> action, id |-> id,
             skipped |-> skipped]
    IN  CASE m[1] = "onetime" ->
               LET s == onetime_schedules[m[2]]
                   onetime == [onetime_schedules EXCEPT ![m[2]].executed = TRUE]
               IN  /\ onetime_schedules' = onetime
                   /\ file' = save(daily_schedule, weekly_schedules, onetime, skipped_dates, debug_mode)
                   /\ _execute_action(s.action, <<"onetime", s.datetime>>)
                   /\ result' = Res(TRUE, "onetime", s.action, s.id, FALSE)
          [] m[1] = "weekly" ->
               LET s == weekly_schedules[m[2]]
               IN  /\ UNCHANGED <<onetime_schedules, file>>
                   /\ IF is_skipped(t)
                      THEN /\ UNCHANGED pending
                           /\ result' = Res(FALSE, "weekly", s.action, s.id, TRUE)
                      ELSE /\ _execute_action(s.action, <<"weekly", s.weekday, s.hour, s.minute>>)
                           /\ result' = Res(TRUE, "weekly", s.action, s.id, FALSE)
          [] m[1] = "daily" ->
               LET action == DailyOrder[m[2]]
                   setting == daily_schedule[action]
               IN  /\ UNCHANGED <<onetime_schedules, file>>
                   /\ IF is_skipped(t)
                      THEN /\ UNCHANGED pending
                           /\ result' = Res(FALSE, "daily", action, 0, TRUE)
                      ELSE /\ _execute_action(action, <<"daily", setting.hour, setting.minute>>)
                           /\ result' = Res(TRUE, "daily", action, 0, FALSE)
          [] OTHER ->
               /\ UNCHANGED <<onetime_schedules, file, pending>>
               /\ result' = Res(FALSE, "", "", 0, FALSE)

storeUnchanged ==
    UNCHANGED <<daily_schedule, weekly_schedules, onetime_schedules, skipped_dates, file, nextId>>

\* ------------------------------------------- event handlers of the tabs
\* Every handler exists twice in the source, once per tab (Shutdown and
\* Restart); the two copies differ in the action only.
\* lastOp names the handler that ran last and whether it refused its input.
Op(name, rejected) == [op |-> name, rejected |-> rejected]

_add_hours_later(action, hours) ==
    /\ nextId <= MaxId
    /\ add_onetime_hours_later(action, hours)
    /\ lastOp' = Op("_add_hours_later", FALSE)
    /\ runtimeUnchanged

_on_daily_changed(action, e, h, m) ==
    /\ IF e /\ check_conflict(action, "daily", [hour |-> h, minute |-> m]) # NoConflict
       THEN storeUnchanged /\ lastOp' = Op("_on_daily_changed", TRUE)
       ELSE LET daily == [daily_schedule EXCEPT ![action] = [enabled |-> e, hour |-> h, minute |-> m]]
            IN  /\ daily_schedule' = daily
                /\ file' = save(daily, weekly_schedules, onetime_schedules, skipped_dates, debug_mode)
                /\ UNCHANGED <<weekly_schedules, onetime_schedules, skipped_dates, nextId>>
                /\ lastOp' = Op("_on_daily_changed", FALSE)
    /\ runtimeUnchanged

_add_weekly(action, w, h, m) ==
    /\ nextId <= MaxId
    /\ IF check_conflict(action, "weekly", [weekday |-> w, hour |-> h, minute |-> m]) # NoConflict
       THEN storeUnchanged /\ lastOp' = Op("_add_weekly", TRUE)
       ELSE add_weekly(action, w, h, m) /\ lastOp' = Op("_add_weekly", FALSE)
    /\ runtimeUnchanged

\* datetime(y, mo, d, h, mi) raises ValueError unless the numbers name a
\* day of the month (here a day of January 2024, counted from 0) and a time
\* of day; the handler's bare except then drops the request.
datetime(d, h, mi) == d \in 0..30 /\ h \in 0..23 /\ mi \in 0..59
_add_onetime(action, d, h, mi) ==
    LET dt_s == strftime(MakeTime(d, h, mi, 0))
    IN  /\ nextId <= MaxId
        /\ IF ~datetime(d, h, mi)
           THEN storeUnchanged /\ lastOp' = Op("_add_onetime", TRUE)
           ELSE IF check_conflict(action, "onetime", [datetime |-> dt_s]) # NoConflict
           THEN storeUnchanged /\ lastOp' = Op("_add_onetime", TRUE)
           ELSE add_onetime(action, dt_s, "manual") /\ lastOp' = Op("_add_onetime", FALSE)
        /\ runtimeUnchanged

_remove_selected_weekly(id) ==
    /\ \E i \in Indices(weekly_schedules) : weekly_schedules[i].id = id
    /\ remove_weekly(id)
    /\ lastOp' = Op("_remove_selected_weekly", FALSE)
    /\ runtimeUnchanged

\* The quick list shows the pending quick entries of the tab.
_remove_selected_quick(id) ==
    /\ \E i \in Indices(onetime_schedules) :
          /\ onetime_schedules[i].id = id
          /\ Get(onetime_schedules[i], "source", "manual") = "quick"
          /\ ~onetime_schedules[i].executed
    /\ remove_onetime(id)
    /\ lastOp' = Op("_remove_selected_quick", FALSE)
    /\ runtimeUnchanged

\* The one-time list shows every entry that is not a quick one.
_remove_selected_onetime(id) ==
    /\ \E i \in Indices(onetime_schedules) :
          /\ onetime_schedules[i].id = id
          /\ Get(onetime_schedules[i], "source", "manual") # "quick"
    /\ remove_onetime(id)
    /\ lastOp' = Op("_remove_selected_onetime", FALSE)
    /\ runtimeUnchanged

_clear_executed_onetime(action) ==
    /\ clear_executed_onetime(action)
    /\ lastOp' = Op("_clear_executed_onetime", FALSE)
    /\ runtimeUnchanged

\* The same with every kind of event skipped and none removed.
_cancel_all_skip_only ==
    LET ev == get_next_event_info(now)
    IN  /\ pending' = [pending EXCEPT !.active = FALSE]
        /\ IF ev.dt # -1 /\ ev.type = "none"
           THEN remove_onetime(ev.id)
           ELSE IF ev.dt # -1 /\ ev.type \in {"onetime", "weekly", "daily"}
           THEN LET skipped == Append(skipped_dates, strftime(ev.dt))
                IN  /\ skipped_dates' = skipped
                    /\ file' = save(daily_schedule, weekly_schedules, onetime_schedules,
                                    skipped, debug_mode)
                    /\ UNCHANGED <<daily_schedule, weekly_schedules, onetime_schedules, nextId>>
           ELSE storeUnchanged
        /\ lastOp' = Op("_cancel_all", FALSE)
        /\ result' = NoResult
        /\ UNCHANGED <<syncVars, now, debug_mode, load_failed, threadVars, last_minute, polled, showQueued,
                       gateVars>>

\* _cancel_all: drops the pending flag, then removes the next event if it
\* is a one-time entry and skips its timestamp if it is a recurring one.
_cancel_all ==
    LET ev == get_next_event_info(now)
    IN  /\ pending' = [pending EXCEPT !.active = FALSE]
        /\ IF ev.dt # -1 /\ ev.type = "onetime"
           THEN remove_onetime(ev.id)
           ELSE IF ev.dt # -1 /\ ev.type \in {"weekly", "daily"}
           THEN LET skipped == Append(skipped_dates, strftime(ev.dt))
                IN  /\ skipped_dates' = skipped
                    /\ file' = save(daily_schedule, weekly_schedules, onetime_schedules,
                                    skipped, debug_mode)
                    /\ UNCHANGED <<daily_schedule, weekly_schedules, onetime_schedules, nextId>>
           ELSE storeUnchanged
        /\ lastOp' = Op("_cancel_all", FALSE)
        /\ result' = NoResult
        /\ UNCHANGED <<syncVars, now, debug_mode, load_failed, threadVars, last_minute, polled, showQueued,
                       gateVars>>

\* The pass with a skipped date taken off the list once it has suppressed
\* its occurrence.
_monitor_loop_consuming ==
    /\ IF minute(now) # last_minute
       THEN /\ last_minute' = minute(now)
            /\ check_and_execute(now)
            /\ showQueued' = IF result'.ret /\ pending'.active THEN showQueued + 1 ELSE showQueued
       ELSE /\ result' = NoResult
            /\ UNCHANGED <<last_minute, onetime_schedules, file, pending, showQueued>>
    /\ polled' = strftime(now)
    /\ lastOp' = Op("_monitor_loop", FALSE)
    /\ skipped_dates' = IF result'.skipped
                        THEN SelectSeq(skipped_dates, LAMBDA d : d # strftime(now))
                        ELSE skipped_dates
    /\ UNCHANGED <<syncVars, now, daily_schedule, weekly_schedules, debug_mode,
                   load_failed, threadVars, nextId, gateVars>>

\* One pass of the loop of _monitor_loop: on a minute other than the last
\* one checked it runs check_and_execute, and after a trigger it queues
\* _show_confirm_dialog when the pending flag is there.
_monitor_loop ==
    /\ IF minute(now) # last_minute
       THEN /\ last_minute' = minute(now)
            /\ check_and_execute(now)
            /\ showQueued' = IF result'.ret /\ pending'.active THEN showQueued + 1 ELSE showQueued
       ELSE /\ result' = NoResult
            /\ UNCHANGED <<last_minute, onetime_schedules, file, pending, showQueued>>
    /\ polled' = strftime(now)
    /\ lastOp' = Op("_monitor_loop", FALSE)
    /\ UNCHANGED <<syncVars, now, daily_schedule, weekly_schedules, skipped_dates, debug_mode,
                   load_failed, threadVars, nextId, gateVars>>

\* --------------------------------------------------- confirmation dialog
\* wake_display and reset_power_state: what the thread asks of the OS.
wake_display == "awake"
reset_power_state == "default"

\* _do_immediate_action: the command handed to the OS.
_do_immediate_action_swapped(action) ==
    [cmd |-> "shutdown", flag |-> IF action = ACTION_SHUTDOWN THEN "/r" ELSE "/s"]
_do_immediate_action(action) ==
    [cmd |-> "shutdown", flag |-> IF action = ACTION_SHUTDOWN THEN "/s" ELSE "/r"]

\* The queued _show_confirm_dialog runs: without the pending flag it
\* returns, with it it takes the flag away, wakes the display and opens a
\* dialog whose first tick is a second away.
_show_confirm_dialog ==
    /\ showQueued > 0
    /\ showQueued' = showQueued - 1
    /\ IF ~pending.active
       THEN UNCHANGED <<pending, gateVars>>
       ELSE /\ pending' = [pending EXCEPT !.active = FALSE]
            /\ displayHint' = wake_display
            /\ dialogs' = Append(dialogs,
                   [action |-> pending.action, trigger |-> pending.trigger,
                    cancel |-> FALSE, open |-> TRUE, cnt |-> CountdownStart,
                    due |-> now + 1, ticks |-> 0, by |-> ""])
            /\ UNCHANGED osActions
    /\ lastOp' = Op("_show_confirm_dialog", FALSE)
    /\ result' = NoResult
    /\ UNCHANGED <<syncVars, now, storeVars, threadVars, last_minute, polled>>

\* The body of do_ex for dialog i, reached from the button or from the
\* last tick: power state reset, dialog destroyed, command sent.
execute(ds, i, how) ==
    /\ displayHint' = reset_power_state
    /\ dialogs' = [ds EXCEPT ![i].open = FALSE, ![i].by = how]
    /\ osActions' = Append(osActions,
           [command |-> _do_immediate_action(ds[i].action), dialog |-> i, by |-> how])

\* if cnt[0] <= 0
expired_late(cnt) == cnt < 0
expired(cnt) == cnt <= 0

\* The callback d.after(1000, tick) of dialog i.  destroy() takes the
\* callbacks of the dialog with it, so only an open dialog ticks.
tick(i) ==
    /\ i \in Indices(dialogs)
    /\ dialogs[i].open
    /\ now >= dialogs[i].due
    /\ IF dialogs[i].cancel
       THEN UNCHANGED gateVars
       ELSE LET ds == [dialogs EXCEPT ![i].cnt = @ - 1, ![i].ticks = @ + 1, ![i].due = now + 1]
            IN  IF expired(ds[i].cnt)
                THEN execute(ds, i, "timeout")
                ELSE /\ dialogs' = ds
                     /\ UNCHANGED <<osActions, displayHint>>
    /\ lastOp' = Op("tick", FALSE)
    /\ result' = NoResult
    /\ UNCHANGED <<syncVars, now, storeVars, threadVars, monitorVars>>

\* The button without d.destroy(): the dialog stays open and its tick
\* stays scheduled.
do_ex_no_destroy(i) ==
    /\ i \in Indices(dialogs)
    /\ dialogs[i].open
    /\ displayHint' = reset_power_state
    /\ dialogs' = [dialogs EXCEPT ![i].by = "confirm"]
    /\ osActions' = Append(osActions,
           [command |-> _do_immediate_action(dialogs[i].action), dialog |-> i, by |-> "confirm"])
    /\ lastOp' = Op("do_ex", FALSE)
    /\ result' = NoResult
    /\ UNCHANGED <<syncVars, now, storeVars, threadVars, monitorVars>>

\* The button of dialog i that executes at once.
do_ex(i) ==
    /\ i \in Indices(dialogs)
    /\ dialogs[i].open
    /\ execute(dialogs, i, "confirm")
    /\ lastOp' = Op("do_ex", FALSE)
    /\ result' = NoResult
    /\ UNCHANGED <<syncVars, now, storeVars, threadVars, monitorVars>>

\* The button of dialog i that cancels.
do_cn_hint_only(i) ==
    /\ i \in Indices(dialogs)
    /\ dialogs[i].open
    /\ displayHint' = reset_power_state
    /\ lastOp' = Op("do_cn", FALSE)
    /\ result' = NoResult
    /\ UNCHANGED <<syncVars, now, storeVars, threadVars, monitorVars, dialogs, osActions>>
do_cn(i) ==
    /\ i \in Indices(dialogs)
    /\ dialogs[i].open
    /\ displayHint' = reset_power_state
    /\ dialogs' = [dialogs EXCEPT ![i].cancel = TRUE, ![i].open = FALSE, ![i].by = "cancel"]
    /\ lastOp' = Op("do_cn", FALSE)
    /\ result' = NoResult
    /\ UNCHANGED <<syncVars, now, storeVars, threadVars, monitorVars, osActions>>

\* The debug-mode checkbox of the settings tab.
_on_debug_mode_changed ==
    /\ debug_mode' = ~debug_mode
    /\ file' = save(daily_schedule, weekly_schedules, onetime_schedules, skipped_dates, ~debug_mode)
    /\ lastOp' = Op("_on_debug_mode_changed", FALSE)
    /\ result' = NoResult
    /\ UNCHANGED <<syncVars, now, daily_schedule, weekly_schedules, onetime_schedules, skipped_dates,
                   load_failed, threadVars, nextId, monitorVars, gateVars>>

\* ---------------------------------------------------------------- states
DefaultDaily == [a \in Actions |-> [enabled |-> FALSE, hour |-> DefaultDailyHour, minute |-> 0]]
NoPending == [active |-> FALSE, action |-> "", trigger |-> <<>>]

\* The defaults of __init__ for the wake-up settings.
DefaultPico ==
    [ip |-> "192.168.10.x", target_mac |-> "",
     startup_daily |-> [enabled |-> FALSE, hour |-> 7, minute |-> 0],
     startup_weekly |-> <<>>, startup_onetime |-> <<>>]

\* ------------------------------------------------------------------ load
\* The state file: absent, not parseable as JSON, or a dictionary (a record
\* with the keys it holds).  An item of a list that is no dictionary is
\* written NotADict: the test "action" not in item raises on it.
NoFile == [absent |-> TRUE]
Unparseable == [unparseable |-> TRUE]
NotADict == [scalar |-> TRUE]

\* data["daily"]: the old single setting goes to shutdown, the new shape
\* is taken action by action.
load_daily(d) ==
    LET loaded_daily == Get(d, "daily", [none |-> TRUE])
    IN  IF Has(loaded_daily, "enabled")
        THEN [DefaultDaily EXCEPT ![ACTION_SHUTDOWN] = loaded_daily]
        ELSE [a \in Actions |-> Get(loaded_daily, a, DefaultDaily[a])]

\* if "action" not in item: item["action"] = ACTION_SHUTDOWN
with_action_other(item) ==
    IF Has(item, "action") THEN item
    ELSE [k \in DOMAIN item \cup {"action"} |-> IF k = "action" THEN ACTION_RESTART ELSE item[k]]
with_action(item) ==
    IF Has(item, "action") THEN item
    ELSE [k \in DOMAIN item \cup {"action"} |-> IF k = "action" THEN ACTION_SHUTDOWN ELSE item[k]]

\* The list that is read before the first item that is no dictionary.
Good(raw) ==
    LET bad == {i \in Indices(raw) : raw[i] = NotADict}
        n == IF bad = {} THEN Len(raw) ELSE (CHOOSE i \in bad : \A j \in bad : i <= j) - 1
    IN  [i \in 1..n |-> with_action(raw[i])]
Raises(raw) == \E i \in Indices(raw) : raw[i] = NotADict

\* data["weekly"] as a dictionary is the old single weekly setting; the id
\* of the entry made from it is new.
raw_weekly(d, new_id) ==
    IF Has(d, "weekly")
    THEN IF Get(d.weekly, "enabled", FALSE)
         THEN <<[id |-> new_id, weekday |-> Get(d.weekly, "weekday", 0),
                 hour |-> Get(d.weekly, "hour", 23), minute |-> Get(d.weekly, "minute", 0),
                 action |-> ACTION_SHUTDOWN]>>
         ELSE <<>>
    ELSE Get(d, "weekly_schedules", <<>>)

load_skipped_none(d) == <<>>
load_skipped(d) == Get(d, "skipped_dates", <<>>)

\* load(): the fields of the store after it, for the file f.  An exception
\* leaves what was assigned before it and sets load_failed.
Defaults ==
    [daily_schedule |-> DefaultDaily, weekly_schedules |-> <<>>, onetime_schedules |-> <<>>,
     pico_settings |-> DefaultPico, debug_mode |-> FALSE, disclaimer_accepted |-> FALSE,
     skipped_dates |-> <<>>, load_failed |-> FALSE]
load(f, new_id) ==
    IF f = NoFile THEN Defaults
    ELSE IF f = Unparseable THEN [Defaults EXCEPT !.load_failed = TRUE]
    ELSE LET weekly == raw_weekly(f, new_id)
             onetime == Get(f, "onetime", <<>>)
             s1 == [Defaults EXCEPT !.daily_schedule = load_daily(f),
                                    !.weekly_schedules = Good(weekly)]
         IN  IF Raises(weekly) THEN [s1 EXCEPT !.load_failed = TRUE]
             ELSE IF Raises(onetime)
             THEN [s1 EXCEPT !.onetime_schedules = Good(onetime), !.load_failed = TRUE]
             ELSE [s1 EXCEPT !.onetime_schedules = Good(onetime),
                             !.pico_settings = Get(f, "pico_settings", DefaultPico),
                             !.debug_mode = Get(f, "debug_mode", FALSE),
                             !.disclaimer_accepted = Get(f, "disclaimer_accepted", FALSE),
                             !.skipped_dates = load_skipped(f)]

\* The device after setup(): the globals of the sketch it was flashed with
\* (the GAS sketch or the Standard sketch), nothing received and nothing
\* sent.
NoMessage == [none |-> TRUE]
Setup(sketch) ==
    /\ firmware = sketch
    /\ targetMac = ""
    /\ dailyWakeup = [enabled |-> FALSE, hour |-> 7, minute |-> 0]
    /\ weeklySchedules = <<>>
    /\ onetimeSchedules = <<>>
    /\ lastCheckedMinute = -1
    /\ wolSent = 0
    /\ udp = 0
    /\ sent = NoMessage
    /\ request = NoMessage
    /\ response = NoMessage
Booted == Setup("GAS")

\* What __init__ leaves behind once load() has read the given lists.
Constructed(daily, weekly, onetime, skipped) ==
    /\ daily_schedule = daily
    /\ weekly_schedules = weekly
    /\ onetime_schedules = onetime
    /\ skipped_dates = skipped
    /\ debug_mode = FALSE
    /\ load_failed = FALSE
    /\ ui = UiIdle
    /\ poller = PollerIdle
    /\ workers = <<>>
    /\ pico_settings = DefaultPico
    /\ disclaimer_accepted = FALSE
    /\ file = snapshot(daily, weekly, onetime, skipped, FALSE)
    /\ nextId = 1
    /\ last_minute = -1
    /\ polled = -1
    /\ pending = NoPending
    /\ showQueued = 0
    /\ result = NoResult
    /\ dialogs = <<>>
    /\ osActions = <<>>
    /\ displayHint = "default"
    /\ lastOp = Op("__init__", FALSE)
    /\ Booted

\* Entries read from the state file carry the ids of an earlier run.
LoadedId(k) == 0 - k

\* ------------------------------------------ the store under the user's edits
\* The state file is absent (first run) or holds one one-time entry that an
\* earlier run has already executed.
InitStore ==
    /\ now = MakeTime(0, 0, 0, 1)
    /\ \E onetime \in {<<>>} \cup
           {<<[id |-> LoadedId(1), action |-> a, datetime |-> strftime(MakeTime(0, 0, 0, 0)),
               executed |-> TRUE, source |-> "manual"]>> : a \in Actions} :
          Constructed(DefaultDaily, <<>>, onetime, <<>>)

WeeklyIds == {weekly_schedules[i].id : i \in Indices(weekly_schedules)}
OnetimeIds == {onetime_schedules[i].id : i \in Indices(onetime_schedules)}

\* What the user enters: times of day <<hour, minute>>, weekdays, days.
StoreSlots == {<<0, 0>>, <<0, 1>>, <<1, 0>>}
StoreWeekdays == {0}
StoreDays == {0, 1}
QuickOptions == {n \in HOURS_LATER_OPTIONS : n <= 1}

UserAdd ==
    \/ \E a \in Actions, e \in BOOLEAN, hm \in StoreSlots : _on_daily_changed(a, e, hm[1], hm[2])
    \/ \E a \in Actions, w \in StoreWeekdays, hm \in StoreSlots : _add_weekly(a, w, hm[1], hm[2])
    \/ \E a \in Actions, d \in StoreDays, hm \in StoreSlots : _add_onetime(a, d, hm[1], hm[2])
    \/ \E a \in Actions, n \in QuickOptions : _add_hours_later(a, n)

UserRemove ==
    \/ \E id \in WeeklyIds : _remove_selected_weekly(id)
    \/ \E id \in OnetimeIds : _remove_selected_quick(id)
    \/ \E id \in OnetimeIds : _remove_selected_onetime(id)
    \/ \E a \in Actions : _clear_executed_onetime(a)

NextStore == UserAdd \/ UserRemove

SpecStore == InitStore /\ [][NextStore]_vars

\* ------------------------------------------------ slots and their owners
\* The slots the other action holds, stated entry by entry.
DailyHolds(a, h, m) ==
    daily_schedule[a].enabled /\ daily_schedule[a].hour = h /\ daily_schedule[a].minute = m
WeeklyHolds(a, w, h, m) ==
    \E i \in Indices(weekly_schedules) :
        weekly_schedules[i] = [id |-> weekly_schedules[i].id, action |-> a,
                               weekday |-> w, hour |-> h, minute |-> m]
OnetimeHolds(a, dt) ==
    \E i \in Indices(onetime_schedules) :
        /\ onetime_schedules[i].action = a
        /\ onetime_schedules[i].datetime = dt
        /\ ~onetime_schedules[i].executed

DailySlotTaken(a, h, m) == DailyHolds(other(a), h, m)
WeeklySlotTaken(a, w, h, m) == WeeklyHolds(other(a), w, h, m) \/ DailyHolds(other(a), h, m)
OnetimeSlotTaken(a, dt) ==
    \/ OnetimeHolds(other(a), dt)
    \/ WeeklyHolds(other(a), weekday(dt * 60), hour(dt * 60), minute(dt * 60))
    \/ DailyHolds(other(a), hour(dt * 60), minute(dt * 60))

SchedulesSame == UNCHANGED <<daily_schedule, weekly_schedules, onetime_schedules>>

\* C1: every add (weekly, one-time by calendar, one-time "N hours later",
\* enabling a daily setting) whose slot the opposing action already holds
\* is rejected and leaves the daily settings, the weekly list and the
\* one-time list as they were.
C1_ConflictingAddRejected ==
    [][/\ \A a \in Actions, hm \in StoreSlots :
            _on_daily_changed(a, TRUE, hm[1], hm[2]) /\ DailySlotTaken(a, hm[1], hm[2])
                => SchedulesSame
       /\ \A a \in Actions, w \in StoreWeekdays, hm \in StoreSlots :
            _add_weekly(a, w, hm[1], hm[2]) /\ WeeklySlotTaken(a, w, hm[1], hm[2])
                => SchedulesSame
       /\ \A a \in Actions, d \in StoreDays, hm \in StoreSlots :
            _add_onetime(a, d, hm[1], hm[2])
              /\ OnetimeSlotTaken(a, (d * 86400 + hm[1] * 3600 + hm[2] * 60) \div 60)
                => SchedulesSame
       /\ \A a \in Actions, n \in QuickOptions :
            _add_hours_later(a, n) /\ OnetimeSlotTaken(a, (now + n * 3600) \div 60)
                => SchedulesSame]_vars

\* Two live entries of opposing actions that fall on one wall-clock minute.
DailyDailyClash ==
    \E h \in 0..23, m \in 0..59 : DailyHolds(ACTION_SHUTDOWN, h, m) /\ DailyHolds(ACTION_RESTART, h, m)
WeeklyWeeklyClash ==
    \E i, j \in Indices(weekly_schedules) :
        /\ weekly_schedules[i].action = ACTION_SHUTDOWN
        /\ weekly_schedules[j].action = ACTION_RESTART
        /\ weekly_schedules[i].weekday = weekly_schedules[j].weekday
        /\ weekly_schedules[i].hour = weekly_schedules[j].hour
        /\ weekly_schedules[i].minute = weekly_schedules[j].minute
OnetimeOnetimeClash ==
    \E i, j \in Indices(onetime_schedules) :
        /\ onetime_schedules[i].action = ACTION_SHUTDOWN /\ ~onetime_schedules[i].executed
        /\ onetime_schedules[j].action = ACTION_RESTART /\ ~onetime_schedules[j].executed
        /\ onetime_schedules[i].datetime = onetime_schedules[j].datetime
DailyWeeklyClash ==
    \E a \in Actions, i \in Indices(weekly_schedules) :
        /\ weekly_schedules[i].action = other(a)
        /\ DailyHolds(a, weekly_schedules[i].hour, weekly_schedules[i].minute)
DailyOnetimeClash ==
    \E a \in Actions, i \in Indices(onetime_schedules) :
        /\ onetime_schedules[i].action = other(a) /\ ~onetime_schedules[i].executed
        /\ DailyHolds(a, hour(onetime_schedules[i].datetime * 60),
                         minute(onetime_schedules[i].datetime * 60))
WeeklyOnetimeClash ==
    \E i \in Indices(weekly_schedules), j \in Indices(onetime_schedules) :
        /\ onetime_schedules[j].action = other(weekly_schedules[i].action)
        /\ ~onetime_schedules[j].executed
        /\ weekly_schedules[i].weekday = weekday(onetime_schedules[j].datetime * 60)
        /\ weekly_schedules[i].hour = hour(onetime_schedules[j].datetime * 60)
        /\ weekly_schedules[i].minute = minute(onetime_schedules[j].datetime * 60)

\* C2: in every reachable state no two live entries of opposing actions
\* fall on the same wall-clock minute, whatever their kinds and whichever
\* of the two was added last.
C2_NoOpposingSameMinute ==
    ~(\/ DailyDailyClash \/ WeeklyWeeklyClash \/ OnetimeOnetimeClash
      \/ DailyWeeklyClash \/ DailyOnetimeClash \/ WeeklyOnetimeClash)

\* ----------------------------------------- the monitor over a loaded store
\* The state file read at start-up: what an earlier run saved.  Recurring
\* entries are at 00:01 (weekly ones on Monday), one-time entries at 00:00
\* or 00:01 of the first day.  The handlers never let two opposing weekly
\* entries or two enabled opposing daily settings share a slot, so no saved
\* file holds such a pair.
LoadMinutes == {0, 1}
LoadedDaily ==
    {d \in [Actions -> {[enabled |-> FALSE, hour |-> DefaultDailyHour, minute |-> 0],
                         [enabled |-> TRUE, hour |-> 0, minute |-> 1]}] :
        ~(d[ACTION_SHUTDOWN].enabled /\ d[ACTION_SHUTDOWN] = d[ACTION_RESTART])}
WeeklyShapes == [action : Actions, weekday : {0}, hour : {0}, minute : {1}]
OnetimeShapes == [action : Actions, datetime : {strftime(MakeTime(0, 0, m, 0)) : m \in LoadMinutes}]
SeqsUpTo(S, n) == UNION {[1..k -> S] : k \in 0..n}
LoadedLists ==
    {p \in SeqsUpTo(WeeklyShapes, MaxLoaded) \X SeqsUpTo(OnetimeShapes, MaxLoaded) :
        /\ Len(p[1]) + Len(p[2]) <= MaxLoaded
        /\ \A i, j \in Indices(p[1]) :
              p[1][i].action # p[1][j].action => p[1][i].minute # p[1][j].minute}
LoadWeekly(ws) ==
    [i \in Indices(ws) |-> [id |-> LoadedId(i), action |-> ws[i].action, weekday |-> ws[i].weekday,
                            hour |-> ws[i].hour, minute |-> ws[i].minute]]
LoadOnetime(os, n) ==
    [i \in Indices(os) |-> [id |-> LoadedId(n + i), action |-> os[i].action,
                            datetime |-> os[i].datetime, executed |-> FALSE, source |-> "manual"]]

InitMonitor ==
    /\ now = 0
    /\ \E d \in LoadedDaily, p \in LoadedLists :
          Constructed(d, LoadWeekly(p[1]), LoadOnetime(p[2], Len(p[1])), <<>>)

\* The instants at which the monitor thread is seen awake: on the minute
\* and a second after it.
ClockSecs == {0, 1}
MonitorClock == {MakeTime(d, 0, m, s) : d \in {0, 1, 7}, m \in LoadMinutes, s \in ClockSecs}

\* time.sleep(2) and whatever else lets the wall clock run on.
sleep ==
    /\ \E t \in MonitorClock : t > now /\ now' = t
    /\ lastOp' = Op("sleep", FALSE)
    /\ result' = NoResult
    /\ UNCHANGED <<storeVars, threadVars, monitorVars, gateVars, syncVars>>

\* The dialog only reads what the monitor leaves for it; this specification
\* follows the store and the monitor thread and leaves the dialogs unopened.
CanSkip(n) ==
    get_next_event_info(now).type \in {"weekly", "daily"} => Len(skipped_dates) < n

NextMonitor == sleep \/ _monitor_loop \/ (CanSkip(MaxSkips) /\ _cancel_all)

SpecMonitor == InitMonitor /\ [][NextMonitor]_vars

\* ---------------------------------------------------- what a check finds
\* The entries that are due at time t, stated entry by entry.
OnetimeDue(t) ==
    {i \in Indices(onetime_schedules) :
        /\ ~onetime_schedules[i].executed
        /\ t - onetime_schedules[i].datetime * 60 < 60
        /\ onetime_schedules[i].datetime * 60 - t < 60}
WeeklyDue(t) ==
    {i \in Indices(weekly_schedules) :
        (weekly_schedules[i].weekday * 24 + weekly_schedules[i].hour) * 60 + weekly_schedules[i].minute
            = (t \div 60) % (7 * 24 * 60)}
DailyDue(t) ==
    {a \in Actions :
        /\ daily_schedule[a].enabled
        /\ daily_schedule[a].hour * 60 + daily_schedule[a].minute = (t \div 60) % (24 * 60)}
Least(S) == CHOOSE i \in S : \A j \in S : i <= j
Flipped == {i \in Indices(onetime_schedules) :
               onetime_schedules'[i].executed # onetime_schedules[i].executed}

\* C3: a check_and_execute call stops at the first match in the order
\* one-time, weekly, daily: it sets at most one entry executed and hands on
\* at most one action, that of the first due one-time entry if there is
\* one, else of the first due weekly entry, else of the due daily setting.
C3_PriorityOrder ==
    [][result'.called =>
         /\ Len(onetime_schedules') = Len(onetime_schedules)
         /\ Cardinality(Flipped) <= 1
         /\ IF OnetimeDue(now) # {}
            THEN LET s == onetime_schedules[Least(OnetimeDue(now))]
                 IN  /\ result'.ret /\ result'.kind = "onetime"
                     /\ result'.id = s.id /\ result'.action = s.action
                     /\ Flipped = {Least(OnetimeDue(now))}
                     /\ pending' = [active |-> TRUE, action |-> s.action,
                                    trigger |-> <<"onetime", s.datetime>>]
            ELSE IF WeeklyDue(now) # {}
            THEN LET s == weekly_schedules[Least(WeeklyDue(now))]
                 IN  /\ result'.kind = "weekly" /\ result'.id = s.id /\ result'.action = s.action
                     /\ Flipped = {}
                     /\ result'.ret => pending'.active /\ pending'.action = s.action
                     /\ ~result'.ret => pending' = pending
            ELSE IF DailyDue(now) # {}
            THEN /\ result'.kind = "daily" /\ result'.action \in DailyDue(now)
                 /\ Flipped = {}
                 /\ result'.ret => pending'.active /\ pending'.action = result'.action
                 /\ ~result'.ret => pending' = pending
            ELSE ~result'.ret /\ result'.kind = "" /\ Flipped = {} /\ pending' = pending]_vars

\* A call that took the one-time entry while a weekly entry and a daily
\* setting were due in the same minute.
C3_Witness ==
    /\ result.called /\ result.ret /\ result.kind = "onetime"
    /\ WeeklyDue(now) # {}
    /\ DailyDue(now) # {}

\* C4: once a one-time entry has executed = true, no check_and_execute call
\* triggers it again, and it keeps executed = true for as long as it is in
\* the store.
C4_OnetimeFiresOnce ==
    [][\A i \in Indices(onetime_schedules) :
          onetime_schedules[i].executed =>
             /\ ~(result'.called /\ result'.kind = "onetime"
                    /\ result'.id = onetime_schedules[i].id)
             /\ \A j \in Indices(onetime_schedules') :
                   onetime_schedules'[j].id = onetime_schedules[i].id
                       => onetime_schedules'[j].executed]_vars

\* A call made within 60 seconds of an entry that had already fired, which
\* found nothing to trigger.
C4_Witness ==
    /\ result.called /\ ~result.ret
    /\ \E i \in Indices(onetime_schedules) :
          /\ onetime_schedules[i].executed
          /\ now - onetime_schedules[i].datetime * 60 < 60
          /\ onetime_schedules[i].datetime * 60 - now < 60

Skipped(t) == \E i \in Indices(skipped_dates) : skipped_dates[i] = t \div 60
RecurringSame == UNCHANGED <<daily_schedule, weekly_schedules>>

---------------------------------------------------------------------------
\* The resolver of the next event, under repeated "cancel next": the user
\* presses the button again and again while the clock runs on.
ResolverDaily ==
    {DefaultDaily} \cup
    {[DefaultDaily EXCEPT ![a] = [enabled |-> TRUE, hour |-> 0, minute |-> 1]] : a \in Actions}
ResolverLists ==
    {p \in SeqsUpTo(WeeklyShapes, 1) \X SeqsUpTo(OnetimeShapes, 1) : Len(p[1]) + Len(p[2]) <= MaxLoaded}

InitResolver ==
    /\ now = 0
    /\ \E d \in ResolverDaily, p \in ResolverLists :
          Constructed(d, LoadWeekly(p[1]), LoadOnetime(p[2], Len(p[1])), <<>>)

NextResolver == sleep \/ (CanSkip(MaxCancels) /\ _cancel_all)

SpecResolver == InitResolver /\ [][NextResolver]_vars

\* C6, read against the store rather than against the code's loops.
\* The timestamps the claim pools: every one-time entry that is not
\* executed, lies strictly after now and is not skipped, and for every
\* weekly entry and every enabled daily setting the first occurrence
\* after now that is not skipped, looked for among the first n.
Week == 7 * 86400
Min(S) == CHOOSE x \in S : \A y \in S : x <= y
FirstAfter(t, offset, period) ==
    Min({x \in {(t \div period) * period + offset + k * period : k \in 0..1} : x > t})
NextFree(first, period, n) ==
    LET free == {x \in {first + k * period : k \in 0..(n - 1)} : ~Skipped(x)}
    IN  IF free = {} THEN {} ELSE {Min(free)}
Pool(n) ==
    {strptime(onetime_schedules[i].datetime) : i \in
        {j \in Indices(onetime_schedules) :
            /\ ~onetime_schedules[j].executed
            /\ strptime(onetime_schedules[j].datetime) > now
            /\ ~Skipped(strptime(onetime_schedules[j].datetime))}}
    \cup UNION {NextFree(FirstAfter(now, MakeTime(weekly_schedules[i].weekday,
                                                 weekly_schedules[i].hour,
                                                 weekly_schedules[i].minute, 0), Week),
                         Week, n) : i \in Indices(weekly_schedules)}
    \cup UNION {NextFree(FirstAfter(now, MakeTime(0, daily_schedule[a].hour,
                                                 daily_schedule[a].minute, 0), 86400),
                         86400, n) : a \in {b \in Actions : daily_schedule[b].enabled}}
ReturnsLeast(P) ==
    LET ev == get_next_event_info(now)
    IN  /\ ev = NoEvent <=> P = {}
        /\ P # {} => ev.dt = Min(P)
        /\ ev # NoEvent => ev.dt > now

\* C6 as stated: get_next_event_info returns the least timestamp of the
\* pool, where each weekly entry and each enabled daily setting stands with
\* its next occurrence that is not skipped, however far that is (with k
\* skip entries it is among the first k + 1 occurrences); it returns no
\* event exactly when the pool is empty, and never a timestamp at or
\* before now.
C6_ReturnsMinimumFuture == ReturnsLeast(Pool(Len(skipped_dates) + 1))

\* C6: get_next_event_info returns the least timestamp of the pool, where
\* each weekly entry and each enabled daily setting stands with the first of
\* its next five occurrences that is not skipped, and with nothing when all
\* five are skipped; it returns no event exactly when that pool is empty,
\* and never a timestamp at or before now.
C6_ReturnsMinimumOfFiveProbes == ReturnsLeast(Pool(ProbeLimit))

\* The resolver passes over a skipped occurrence of one entry and returns
\* a later timestamp, with another kind of candidate in the pool.
C6_Witness ==
    LET ev == get_next_event_info(now)
    IN  /\ ev # NoEvent
        /\ skipped_dates # <<>>
        /\ Cardinality(Pool(ProbeLimit)) >= 2
        /\ \E i \in Indices(skipped_dates) : strptime(skipped_dates[i]) > now
        /\ ev.dt = Min(Pool(ProbeLimit))
---------------------------------------------------------------------------
\* The monitor thread and the dialogs it opens, second by second.  The
\* application starts two seconds before a minute ends.
InitGate ==
    /\ now = MakeTime(0, 0, 0, 58)
    /\ \E d \in ResolverDaily, p \in ResolverLists :
          Constructed(d, LoadWeekly(p[1]), LoadOnetime(p[2], Len(p[1])), <<>>)

\* A second passes.  What is due within the second runs first: the queued
\* _show_confirm_dialog (100 ms), the ticks of the open dialogs (1000 ms
\* after the last one) and the pass of the monitor thread that sees the
\* new minute (it sleeps two seconds at a time).
elapse ==
    /\ now < MaxClock
    /\ showQueued = 0
    /\ \A i \in Indices(dialogs) : dialogs[i].open => now < dialogs[i].due
    /\ minute(now) # last_minute => now % 60 < 1
    /\ now' = now + 1
    /\ lastOp' = Op("elapse", FALSE)
    /\ result' = NoResult
    /\ UNCHANGED <<storeVars, threadVars, monitorVars, gateVars, syncVars>>

\* The instants at which the user is seen at the buttons: as the first
\* dialog opens, with two dialogs on the screen, and after the first
\* countdown has run out.
UserSeconds == {MakeTime(0, 0, 0, 58), MakeTime(0, 0, 1, 1), MakeTime(0, 0, 1, 59)}

AtButtons == now \in UserSeconds

Next ==
    \/ elapse
    \/ (minute(now) # last_minute /\ _monitor_loop)
    \/ _show_confirm_dialog
    \/ \E i \in Indices(dialogs) : tick(i)
    \/ \E i \in Indices(dialogs) : AtButtons /\ do_ex(i)
    \/ \E i \in Indices(dialogs) : AtButtons /\ do_cn(i)
    \/ (AtButtons /\ _on_debug_mode_changed)
    \/ (AtButtons /\ CanSkip(MaxSkips) /\ _cancel_all)

Spec == InitGate /\ [][Next]_vars

\* A dialog is pending from the moment it opens until it is destroyed.
Open == {i \in Indices(dialogs) : dialogs[i].open}
Executed(i) == {k \in Indices(osActions) : osActions[k].dialog = i}
FlagOf(action) == IF action = ACTION_SHUTDOWN THEN "/s" ELSE "/r"

C8_CancelNeverExecutes ==
    [][/\ \A i \in Indices(dialogs) :
             do_cn(i) => /\ displayHint' = "default"
                         /\ ~dialogs'[i].open /\ dialogs'[i].by = "cancel"
                         /\ osActions' = osActions
       /\ \A i \in Indices(dialogs) :
             dialogs[i].by = "cancel" =>
                 /\ dialogs'[i] = dialogs[i]
                 /\ \A k \in Indices(osActions') : osActions'[k].dialog # i]_vars

\* A dialog was cancelled, the second at which its countdown would have
\* run out has passed, and nothing was executed for it.
C8_Witness ==
    \E i \in Indices(dialogs) :
        /\ dialogs[i].by = "cancel"
        /\ now >= dialogs[i].due + dialogs[i].cnt
        /\ Executed(i) = {}

\* C9: at most one confirmation is pending at any time, whether it is the
\* flag the monitor has set or a dialog that is counting down.
C9_AtMostOnePending ==
    Cardinality(Open) + (IF pending.active THEN 1 ELSE 0) <= 1

\* C10: an OS command is sent only by the Confirm button or the last tick
\* of an open dialog, for the action of that dialog; a dialog opens only
\* from the pending flag, with its action; and the pending flag is set only
\* by a check of the monitor that triggered that action.
C10_NoBypass ==
    [][/\ osActions' # osActions =>
             \E i \in Open :
                 /\ do_ex(i) \/ (tick(i) /\ dialogs[i].cnt = 1)
                 /\ Len(osActions') = Len(osActions) + 1
                 /\ osActions'[Len(osActions')].dialog = i
                 /\ osActions'[Len(osActions')].command.flag = FlagOf(dialogs[i].action)
                 /\ \A k \in Indices(osActions) : osActions'[k] = osActions[k]
       /\ dialogs' # dialogs /\ Len(dialogs') # Len(dialogs) =>
             /\ pending.active /\ ~pending'.active
             /\ dialogs' = Append(dialogs, dialogs'[Len(dialogs')])
             /\ dialogs'[Len(dialogs')].action = pending.action
             /\ dialogs'[Len(dialogs')].open /\ dialogs'[Len(dialogs')].cnt = 60
       /\ pending'.active /\ pending' # pending =>
             /\ result'.called /\ result'.ret /\ ~debug_mode
             /\ pending'.action = result'.action]_vars

\* Both ways to an OS command have been taken: one dialog was confirmed,
\* another ran out.
C10_Witness ==
    /\ \E k \in Indices(osActions) : osActions[k].by = "confirm"
    /\ \E k \in Indices(osActions) : osActions[k].by = "timeout"

\* C11: a check made while debug mode is on, whatever it matches, leaves
\* the pending attributes as they are, queues no dialog, opens none and
\* sends no OS command; the pending flag is set and a dialog is queued only
\* by a step taken with debug mode off.
C11_DebugDiscardsMatch ==
    [][/\ result'.called /\ debug_mode =>
             /\ pending' = pending
             /\ showQueued' = showQueued
             /\ UNCHANGED <<dialogs, osActions, displayHint>>
       /\ (pending'.active /\ pending' # pending) \/ showQueued' > showQueued => ~debug_mode]_vars

\* A check in debug mode matched a recurring entry and nothing is pending,
\* after an earlier check in debug mode had consumed a one-time entry.
C11_Witness ==
    /\ debug_mode /\ result.called /\ result.ret
    /\ result.kind \in {"weekly", "daily"}
    /\ \E i \in Indices(onetime_schedules) : onetime_schedules[i].executed
    /\ ~pending.active /\ showQueued = 0 /\ dialogs = <<>>
---------------------------------------------------------------------------
\* The state file across runs of the application.
LegacyId == 0

\* The process starts (again, after a crash or an exit): __init__ of
\* ScheduleManager loads the state file, the monitor thread starts afresh,
\* and what was pending or on the screen is gone.
__init__ ==
    LET st == load(file, LegacyId)
    IN  /\ daily_schedule' = st.daily_schedule
        /\ weekly_schedules' = st.weekly_schedules
        /\ onetime_schedules' = st.onetime_schedules
        /\ skipped_dates' = st.skipped_dates
        /\ debug_mode' = st.debug_mode
        /\ load_failed' = st.load_failed
        /\ ui' = UiIdle
        /\ poller' = PollerIdle
        /\ workers' = <<>>
        /\ pico_settings' = st.pico_settings
        /\ disclaimer_accepted' = st.disclaimer_accepted
        /\ last_minute' = -1
        /\ polled' = -1
        /\ pending' = NoPending
        /\ showQueued' = 0
        /\ dialogs' = <<>>
        /\ displayHint' = "default"
        /\ result' = NoResult
        /\ response' = NoMessage
        /\ lastOp' = Op("__init__", FALSE)
        /\ UNCHANGED <<now, file, nextId, osActions, deviceVars, request>>

\* The state files found at the first start: none, one that is no JSON,
\* one written by this version, one with a single daily setting and lists
\* whose entries have no action, one with a single weekly setting, and one
\* whose one-time list holds an item that is no dictionary.
FileOnetime == [id |-> LoadedId(1), action |-> ACTION_RESTART,
                datetime |-> strftime(MakeTime(0, 0, 1, 0)), executed |-> FALSE,
                source |-> "manual"]
FileWeekly == [id |-> LoadedId(2), weekday |-> 1, hour |-> 0, minute |-> 1,
               action |-> ACTION_RESTART]
OldOnetime == [id |-> LoadedId(1), datetime |-> strftime(MakeTime(0, 0, 1, 0)),
               executed |-> FALSE]
OldWeekly == [id |-> LoadedId(2), weekday |-> 1, hour |-> 0, minute |-> 1]
Files ==
    {NoFile, Unparseable,
     data([DefaultDaily EXCEPT ![ACTION_RESTART].enabled = TRUE], <<FileWeekly>>,
          <<FileOnetime>>,
          [DefaultPico EXCEPT !.ip = "192.168.10.2"], TRUE, TRUE,
          <<strftime(MakeTime(0, DefaultDailyHour, 0, 0))>>),
     [daily |-> [enabled |-> TRUE, hour |-> 0, minute |-> 1],
      weekly_schedules |-> <<OldWeekly>>, onetime |-> <<OldOnetime>>],
     [daily |-> [shutdown |-> [enabled |-> TRUE, hour |-> 0, minute |-> 1]],
      weekly |-> [enabled |-> TRUE, weekday |-> 1, hour |-> 0, minute |-> 1],
      onetime |-> <<OldOnetime>>, debug_mode |-> FALSE],
     [daily |-> DefaultDaily, weekly_schedules |-> <<>>,
      onetime |-> <<FileOnetime, NotADict>>, debug_mode |-> FALSE, skipped_dates |-> <<>>]}

InitPersist ==
    /\ now = 0
    /\ file \in Files
    /\ LET st == load(file, LegacyId)
       IN  /\ daily_schedule = st.daily_schedule
           /\ weekly_schedules = st.weekly_schedules
           /\ onetime_schedules = st.onetime_schedules
           /\ skipped_dates = st.skipped_dates
           /\ debug_mode = st.debug_mode
           /\ load_failed = st.load_failed
           /\ ui = UiIdle
           /\ poller = PollerIdle
           /\ workers = <<>>
           /\ pico_settings = st.pico_settings
           /\ disclaimer_accepted = st.disclaimer_accepted
    /\ nextId = 1
    /\ last_minute = -1
    /\ polled = -1
    /\ pending = NoPending
    /\ showQueued = 0
    /\ result = NoResult
    /\ dialogs = <<>>
    /\ osActions = <<>>
    /\ displayHint = "default"
    /\ lastOp = Op("__init__", FALSE)
    /\ Booted

\* The run is followed over the first minute and a second of the next.
PersistClock == {MakeTime(0, 0, 1, 0), MakeTime(0, 0, 1, 1)}

NextPersist ==
    \/ (sleep /\ now' \in PersistClock)
    \/ _monitor_loop
    \/ __init__
    \/ (CanSkip(MaxSkips) /\ _cancel_all)
    \/ _add_onetime(ACTION_SHUTDOWN, 0, 0, 1)
    \/ \E e \in BOOLEAN : _on_daily_changed(ACTION_SHUTDOWN, e, 0, 1)
    \/ \E id \in OnetimeIds : _remove_selected_onetime(id)

SpecPersist == InitPersist /\ [][NextPersist]_vars

\* The one-time entry with the given id as a fresh process reads it from
\* the state file f.
ExecutedOnDisk(f, id) ==
    \E j \in Indices(load(f, LegacyId).onetime_schedules) :
        /\ load(f, LegacyId).onetime_schedules[j].id = id
        /\ load(f, LegacyId).onetime_schedules[j].executed
SurvivesCrash ==
    /\ result'.called /\ result'.ret /\ result'.kind = "onetime"
           => ExecutedOnDisk(file', result'.id)
    /\ \A i \in Indices(onetime_schedules) :
          onetime_schedules[i].executed =>
             /\ ~(result'.called /\ result'.kind = "onetime"
                    /\ result'.id = onetime_schedules[i].id)
             /\ __init__ =>
                   \E j \in Indices(onetime_schedules') :
                       /\ onetime_schedules'[j].id = onetime_schedules[i].id
                       /\ onetime_schedules'[j].executed

\* C12 as stated: the check that triggers a one-time entry leaves it in the
\* state file with executed = true in the very step that hands the action
\* on, so a process started afterwards loads it as executed and no check,
\* before or after the restart, triggers it again.
C12_ExecutedSurvivesCrash == [][SurvivesCrash]_vars

\* C12: the same, for a run whose load of the state file did not fail.
C12_ExecutedSurvivesCrashWhenLoaded == [][~load_failed => SurvivesCrash]_vars

\* The process has been started again after a one-time entry was triggered,
\* at a second still inside the window of that entry, and it has loaded
\* the entry as executed.
C12_Witness ==
    /\ lastOp.op = "__init__" /\ ~load_failed
    /\ \E i \in Indices(onetime_schedules) :
          /\ onetime_schedules[i].executed
          /\ Abs(now - strptime(onetime_schedules[i].datetime)) < MatchWindow

\* C13: a start that finds a state file it cannot parse, or one with an
\* item it cannot read, ends with the load-failed flag set; and while the
\* flag is set no handler, check or skip changes the state file or clears
\* the flag, whatever it changes in memory.
C13_LoadFailureFreezesFile ==
    [][/\ __init__ /\ (file = Unparseable \/ Raises(raw_weekly(file, LegacyId))
                          \/ Raises(Get(file, "onetime", <<>>)))
             => load_failed'
       /\ load_failed => file' = file
       /\ load_failed /\ ~__init__ => load_failed']_vars

\* After a failed load the user has added a one-time entry and enabled the
\* daily setting, a check has triggered an entry and an occurrence has been
\* skipped: the store differs from what the file holds, which is still one
\* of the files the first start found.
C13_Witness ==
    /\ load_failed /\ file \in Files
    /\ daily_schedule[ACTION_SHUTDOWN].enabled
    /\ Len(skipped_dates) > 0
    /\ \E i \in Indices(onetime_schedules) :
          onetime_schedules[i].id > 0 /\ onetime_schedules[i].executed

\* The fields of the store, and what a fresh store holds after load() has
\* read the file f.
Store ==
    [daily_schedule |-> daily_schedule, weekly_schedules |-> weekly_schedules,
     onetime_schedules |-> onetime_schedules, pico_settings |-> pico_settings,
     debug_mode |-> debug_mode, disclaimer_accepted |-> disclaimer_accepted,
     skipped_dates |-> skipped_dates, load_failed |-> FALSE]
Reload(f) == load(f, LegacyId)

\* C14: what save writes for the store as it is (daily settings of both
\* actions, weekly list, one-time list with executed flags and sources,
\* companion-device settings, debug flag, disclaimer flag, skip list) is
\* loaded by a fresh store as the same values, without a load failure; and
\* in a run that saves, the file on disk is always loaded as the store
\* that is in memory.
C14_RoundTrip ==
    /\ Reload(data(daily_schedule, weekly_schedules, onetime_schedules, pico_settings,
                   debug_mode, disclaimer_accepted, skipped_dates)) = Store
    /\ ~load_failed => Reload(file) = Store

\* A store with every part away from its default has been saved by a
\* check that marked a one-time entry executed.
C14_Witness ==
    /\ ~load_failed /\ result.called /\ result.kind = "onetime"
    /\ file = data(daily_schedule, weekly_schedules, onetime_schedules, pico_settings,
                   debug_mode, disclaimer_accepted, skipped_dates)
    /\ daily_schedule[ACTION_RESTART].enabled /\ weekly_schedules # <<>>
    /\ \E i \in Indices(onetime_schedules) :
          onetime_schedules[i].executed /\ onetime_schedules[i].source = "manual"
    /\ pico_settings # DefaultPico /\ debug_mode /\ disclaimer_accepted
    /\ skipped_dates # <<>>

\* An entry as the file has it, and as the store has it after load.
Migrated(raw, loaded) ==
    /\ \A k \in DOMAIN raw : loaded[k] = raw[k]
    /\ loaded.action = IF "action" \in DOMAIN raw THEN raw.action ELSE ACTION_SHUTDOWN

\* C15: after a start that read a state file, a daily value of the single-
\* setting shape (with enabled, without action keys) is the Shutdown daily
\* setting and the Restart daily setting is the disabled default; every
\* weekly and one-time entry of the store is the entry at its place in the
\* file, with the action Shutdown when the file gives it none; and a
\* single enabled weekly setting is one weekly entry with the action
\* Shutdown.
C15_LegacyMigratesToShutdown ==
    lastOp.op = "__init__" /\ file \notin {NoFile, Unparseable} =>
        /\ Has(file, "daily") /\ Has(file.daily, "enabled") =>
              /\ daily_schedule[ACTION_SHUTDOWN] = file.daily
              /\ daily_schedule[ACTION_RESTART] = [enabled |-> FALSE, hour |-> 23, minute |-> 0]
        /\ Has(file, "weekly") =>
              \A j \in Indices(weekly_schedules) :
                  /\ file.weekly.enabled
                  /\ weekly_schedules[j].action = ACTION_SHUTDOWN
                  /\ \A k \in {"weekday", "hour", "minute"} :
                        weekly_schedules[j][k] = file.weekly[k]
        /\ ~Has(file, "weekly") /\ Has(file, "weekly_schedules") =>
              \A j \in Indices(weekly_schedules) :
                  Migrated(file.weekly_schedules[j], weekly_schedules[j])
        /\ Has(file, "onetime") =>
              \A j \in Indices(onetime_schedules) :
                  Migrated(file.onetime[j], onetime_schedules[j])

\* A file with a single daily setting and entries without actions has
\* been read: the setting and the entries are in the store under Shutdown.
C15_Witness ==
    /\ lastOp.op = "__init__" /\ ~load_failed
    /\ Has(file, "daily") /\ Has(file.daily, "enabled") /\ file.daily.enabled
    /\ daily_schedule[ACTION_SHUTDOWN].enabled /\ ~daily_schedule[ACTION_RESTART].enabled
    /\ \E j \in Indices(weekly_schedules) :
          ~Has(file.weekly_schedules[j], "action") /\ weekly_schedules[j].action = ACTION_SHUTDOWN
    /\ \E j \in Indices(onetime_schedules) :
          ~Has(file.onetime[j], "action") /\ onetime_schedules[j].action = ACTION_SHUTDOWN
---------------------------------------------------------------------------
\* The wake-up device (Pico W) and the desktop's sync with it.
\* weeklySchedules[10], onetimeSchedules[10]
Capacity == 10
\* if (weeklyCount < 10), while (... && weeklyCount < 10)
HasRoom_always(count) == TRUE
HasRoom(count) == count < Capacity

\* An Arduino String is the sequence of its tokens: a token is a separator
\* ("," or ";") or the text between two separators.  Indices count from 0.
Numbers == 0..60 \cup {2024}
\* String::toInt: the number the text starts with, 0 when it starts with none
Numerals == [n \in Numbers |-> ToString(n)]
toInt(str) ==
    IF str # <<>> /\ \E n \in Numbers : Numerals[n] = str[1]
    THEN CHOOSE n \in Numbers : Numerals[n] = str[1]
    ELSE 0
\* String::indexOf(ch, fromIndex): -1 when fromIndex is at or past the end
indexOf(str, ch, fromIndex) ==
    IF fromIndex >= Len(str) THEN -1
    ELSE LET hits == {i \in fromIndex..(Len(str) - 1) : str[i + 1] = ch}
         IN  IF hits = {} THEN -1 ELSE CHOOSE i \in hits : \A j \in hits : i <= j
lastIndexOf(str, ch) ==
    LET hits == {i \in 0..(Len(str) - 1) : str[i + 1] = ch}
    IN  IF hits = {} THEN -1 ELSE CHOOSE i \in hits : \A j \in hits : i >= j
\* String::substring(unsigned left, unsigned right): an int of -1 arrives as
\* 2^32 - 1, written here as the largest integer at hand, which like it is
\* past every length; the ends are swapped when left > right and right is
\* cut to the length.
Unsigned(i) == IF i < 0 THEN 2147483647 + (i + 1) ELSE i
substring(str, beginIndex, endIndex) ==
    LET b == Unsigned(beginIndex)
        e == Unsigned(endIndex)
        left == IF b > e THEN e ELSE b
        right == IF b > e THEN b ELSE e
    IN  IF left >= Len(str) THEN <<>>
        ELSE SubSeq(str, left + 1, IF right > Len(str) THEN Len(str) ELSE right)
substringFrom(str, beginIndex) == substring(str, beginIndex, Len(str))
\* The text of a String.
RECURSIVE Text(_)
Text(str) == IF str = <<>> THEN "" ELSE str[1] \o Text(Tail(str))

\* server.hasArg / server.arg: a missing argument reads as the empty String
arg(args, name) == IF Has(args, name) THEN args[name] ELSE <<>>

\* The weekly loop of handleUpdateSchedule (the same in both sketches); the
\* id of a slot is never read and is left out.
RECURSIVE parse_weekly(_, _)
parse_weekly(wStr, list) ==
    IF ~(Len(wStr) > 0 /\ HasRoom(Len(list))) THEN list
    ELSE LET semi == indexOf(wStr, ";", 0)
             item == IF semi = -1 THEN wStr ELSE substring(wStr, 0, semi)
             rest == IF semi = -1 THEN <<>> ELSE substringFrom(wStr, semi + 1)
             c1 == indexOf(item, ",", 0)
             c2 == lastIndexOf(item, ",")
         IN  parse_weekly(rest,
                 IF c1 # -1 /\ c2 # -1 /\ c1 # c2
                 THEN Append(list, [weekday |-> toInt(substring(item, 0, c1)),
                                    hour |-> toInt(substring(item, c1 + 1, c2)),
                                    minute |-> toInt(substringFrom(item, c2 + 1))])
                 ELSE list)

\* The test on the commas of a one-time item: the GAS sketch looks at the
\* fourth search only, the Standard sketch at all four.
accepted(sketch, c1, c2, c3, c4) ==
    IF sketch = "GAS" THEN c4 # -1
    ELSE c1 # -1 /\ c2 # -1 /\ c3 # -1 /\ c4 # -1

\* The one-time loop of handleUpdateSchedule.  The GAS sketch reads a
\* source after a fifth comma; the Standard sketch has no source.
parse_item(sketch, item) ==
    LET c1 == indexOf(item, ",", 0)
        c2 == indexOf(item, ",", c1 + 1)
        c3 == indexOf(item, ",", c2 + 1)
        c4 == indexOf(item, ",", c3 + 1)
        c5 == indexOf(item, ",", c4 + 1)
        y == toInt(substring(item, 0, c1))
        mo == toInt(substring(item, c1 + 1, c2))
        d == toInt(substring(item, c2 + 1, c3))
        h == toInt(substring(item, c3 + 1, c4))
    IN  IF ~accepted(sketch, c1, c2, c3, c4) THEN <<>>
        ELSE IF sketch # "GAS"
        THEN <<[year |-> y, month |-> mo, day |-> d, hour |-> h,
                minute |-> toInt(substringFrom(item, c4 + 1)), executed |-> FALSE]>>
        ELSE <<[year |-> y, month |-> mo, day |-> d, hour |-> h,
                minute |-> IF c5 # -1 THEN toInt(substring(item, c4 + 1, c5))
                           ELSE toInt(substringFrom(item, c4 + 1)),
                executed |-> FALSE,
                source |-> IF c5 # -1 THEN Text(substringFrom(item, c5 + 1)) ELSE "manual"]>>
RECURSIVE parse_onetime(_, _, _)
parse_onetime(sketch, oStr, list) ==
    IF ~(Len(oStr) > 0 /\ HasRoom(Len(list))) THEN list
    ELSE LET semi == indexOf(oStr, ";", 0)
             item == IF semi = -1 THEN oStr ELSE substring(oStr, 0, semi)
             rest == IF semi = -1 THEN <<>> ELSE substringFrom(oStr, semi + 1)
         IN  parse_onetime(sketch, rest, list \o parse_item(sketch, item))

\* getScheduleJSON of the GAS sketch, for the given globals: neither the
\* executed flags nor the target MAC are part of it.
getScheduleJSON(daily, weekly, onetime) ==
    [daily |-> daily,
     weekly |-> weekly,
     onetime |-> [i \in DOMAIN onetime |->
                    [year |-> onetime[i].year, month |-> onetime[i].month,
                     day |-> onetime[i].day, hour |-> onetime[i].hour,
                     minute |-> onetime[i].minute, source |-> onetime[i].source]]]

\* server.send: the reply goes to the client that asked; the desktop's
\* worker thread is waiting for the reply to the request it has posted.
send(client, code, type, body) ==
    LET reply == [code |-> code, type |-> type, body |-> body]
    IN  /\ sent' = reply
        /\ IF client = "app"
           THEN request' = NoMessage /\ response' = reply
           ELSE UNCHANGED netVars
sendJSON(client) ==
    send(client, 200, "application/json",
         getScheduleJSON(dailyWakeup', weeklySchedules', onetimeSchedules'))
deskUnchanged == UNCHANGED <<now, storeVars, threadVars, monitorVars, gateVars, picoVars>>
handled(name) ==
    /\ lastOp' = Op(name, FALSE)
    /\ result' = NoResult
    /\ UNCHANGED <<lastCheckedMinute, wolSent, udp, firmware>>
    /\ deskUnchanged

\* POST /update_schedule with the given arguments, from the desktop (the
\* request in flight) or from another client.
handleUpdateSchedule(client, args) ==
    /\ client = "app" => request # NoMessage /\ args = request.args
    /\ IF firmware # "GAS" /\ ~Has(args, "d_en")
       THEN /\ UNCHANGED <<targetMac, dailyWakeup, weeklySchedules, onetimeSchedules>>
            /\ send(client, 400, "text/plain", "Missing arguments")
       ELSE /\ targetMac' = IF Has(args, "mac") THEN args.mac ELSE targetMac
            /\ dailyWakeup' = IF Has(args, "d_en")
                              THEN [enabled |-> toInt(arg(args, "d_en")) = 1,
                                    hour |-> toInt(arg(args, "d_h")),
                                    minute |-> toInt(arg(args, "d_m"))]
                              ELSE dailyWakeup
            /\ weeklySchedules' = IF Has(args, "weekly")
                                  THEN parse_weekly(args.weekly, <<>>)
                                  ELSE weeklySchedules
            /\ onetimeSchedules' = IF Has(args, "onetime")
                                   THEN parse_onetime(firmware, args.onetime, <<>>)
                                   ELSE onetimeSchedules
            /\ IF firmware = "GAS" THEN sendJSON(client)
               ELSE send(client, 200, "text/plain", "OK")
    /\ handled("handleUpdateSchedule")

\* The routes below exist in the GAS sketch only; a browser calls them.
handleUpdateDaily(args) ==
    /\ firmware = "GAS"
    /\ dailyWakeup' = [enabled |-> Has(args, "enabled"),
                       hour |-> IF Has(args, "h") THEN toInt(args.h) ELSE dailyWakeup.hour,
                       minute |-> IF Has(args, "m") THEN toInt(args.m) ELSE dailyWakeup.minute]
    /\ UNCHANGED <<targetMac, weeklySchedules, onetimeSchedules>>
    /\ sendJSON("browser")
    /\ handled("handleUpdateDaily")

handleAddWeekly(args) ==
    /\ firmware = "GAS"
    /\ weeklySchedules' =
          IF HasRoom(Len(weeklySchedules)) /\ Has(args, "wd") /\ Has(args, "h") /\ Has(args, "m")
          THEN Append(weeklySchedules, [weekday |-> toInt(args.wd), hour |-> toInt(args.h),
                                        minute |-> toInt(args.m)])
          ELSE weeklySchedules
    /\ UNCHANGED <<targetMac, dailyWakeup, onetimeSchedules>>
    /\ sendJSON("browser")
    /\ handled("handleAddWeekly")

\* The loop started one slot early: slots[idx - 1] is overwritten too.
remove_from_before(slots, idx) == [i \in 1..(Len(slots) - 1) |-> IF i < idx THEN slots[i] ELSE slots[i + 1]]

\* for (i = idx; i < count - 1; i++) slots[i] = slots[i + 1]; count--
remove(slots, idx) == [i \in 1..(Len(slots) - 1) |-> IF i <= idx THEN slots[i] ELSE slots[i + 1]]

handleDeleteWeekly(args) ==
    /\ firmware = "GAS"
    /\ weeklySchedules' =
          IF Has(args, "idx") /\ toInt(args.idx) >= 0 /\ toInt(args.idx) < Len(weeklySchedules)
          THEN remove(weeklySchedules, toInt(args.idx))
          ELSE weeklySchedules
    /\ UNCHANGED <<targetMac, dailyWakeup, onetimeSchedules>>
    /\ sendJSON("browser")
    /\ handled("handleDeleteWeekly")

handleAddOneTime(args) ==
    /\ firmware = "GAS"
    /\ onetimeSchedules' =
          IF /\ HasRoom(Len(onetimeSchedules))
             /\ Has(args, "Y") /\ Has(args, "M") /\ Has(args, "D") /\ Has(args, "h")
             /\ Has(args, "m")
          THEN Append(onetimeSchedules,
                      [year |-> toInt(args.Y), month |-> toInt(args.M), day |-> toInt(args.D),
                       hour |-> toInt(args.h), minute |-> toInt(args.m),
                       executed |-> FALSE, source |-> "web"])
          ELSE onetimeSchedules
    /\ UNCHANGED <<targetMac, dailyWakeup, weeklySchedules>>
    /\ sendJSON("browser")
    /\ handled("handleAddOneTime")

handleDeleteOneTime(args) ==
    /\ firmware = "GAS"
    /\ onetimeSchedules' =
          IF Has(args, "idx") /\ toInt(args.idx) >= 0 /\ toInt(args.idx) < Len(onetimeSchedules)
          THEN remove(onetimeSchedules, toInt(args.idx))
          ELSE onetimeSchedules
    /\ UNCHANGED <<targetMac, dailyWakeup, weeklySchedules>>
    /\ sendJSON("browser")
    /\ handled("handleDeleteOneTime")

\* GET /get_schedule
handleGetSchedule_consuming ==
    /\ firmware = "GAS"
    /\ onetimeSchedules' = [i \in DOMAIN onetimeSchedules |->
                               [onetimeSchedules[i] EXCEPT !.executed = TRUE]]
    /\ UNCHANGED <<targetMac, dailyWakeup, weeklySchedules>>
    /\ sendJSON("browser")
    /\ handled("handleGetSchedule")
handleGetSchedule ==
    /\ firmware = "GAS"
    /\ UNCHANGED <<targetMac, dailyWakeup, weeklySchedules, onetimeSchedules>>
    /\ sendJSON("browser")
    /\ handled("handleGetSchedule")

\* timeClient.getDay(): 0 = Sunday .. 6 = Saturday (second 0 of the clock is
\* a Monday, 2024-01-01 00:00:00), and the date of gmtime within that month.
getDay(t) == ((t \div 86400) + 1) % 7
gmtime(t) == [tm_year |-> 2024, tm_mon |-> 1, tm_mday |-> 1 + (t \div 86400)]
\* int currentWeekday = (d==0)?6:(d-1)
currentWeekday_untranslated(d) == d
currentWeekday(d) == IF d = 0 THEN 6 ELSE d - 1

dailyWake(t) ==
    dailyWakeup.enabled /\ dailyWakeup.hour = hour(t) /\ dailyWakeup.minute = minute(t)
weeklyWake(t) ==
    {i \in Indices(weeklySchedules) :
        /\ weeklySchedules[i].weekday = currentWeekday(getDay(t))
        /\ weeklySchedules[i].hour = hour(t)
        /\ weeklySchedules[i].minute = minute(t)}
onetimeWake(t) ==
    {i \in Indices(onetimeSchedules) :
        /\ ~onetimeSchedules[i].executed
        /\ onetimeSchedules[i].year = gmtime(t).tm_year
        /\ onetimeSchedules[i].month = gmtime(t).tm_mon
        /\ onetimeSchedules[i].day = gmtime(t).tm_mday
        /\ onetimeSchedules[i].hour = hour(t)
        /\ onetimeSchedules[i].minute = minute(t)}

\* sscanf(macStr, format, &mac[0] .. &mac[5]): the number of conversions
\* made.  The GAS sketch reads with "%hhx:%hhx:%hhx:%hhx:%hhx:%hhx", six
\* hexadecimal bytes with colons between them.  The Standard sketch reads
\* with "%hxx:%hxx:%hxx:%hxx:%hxx:%hxx": the conversion %hx followed by a
\* letter x the text must hold, so after the first number of a text with
\* colons the scan stops at the colon with one conversion made.
MAC_COLONS == "AA:BB:CC:DD:EE:FF"
MAC_X == "AAx:BBx:CCx:DDx:EEx:FFx"
sscanf(sketch, macStr) ==
    IF macStr = MAC_COLONS THEN (IF sketch = "GAS" THEN 6 ELSE 1)
    ELSE IF macStr = MAC_X THEN (IF sketch = "GAS" THEN 1 ELSE 6)
    ELSE 0
\* sendWOL(macStr): the number of magic packets it broadcasts.
sendWOL(macStr) ==
    IF macStr = "" THEN 0
    ELSE IF sscanf(firmware, macStr) # 6 THEN 0
    ELSE 1

\* The check without the return on a minute already checked.
checkSchedule_every_pass ==
    /\ IF FALSE
       THEN UNCHANGED <<lastCheckedMinute, onetimeSchedules, wolSent, udp>>
       ELSE /\ lastCheckedMinute' = minute(now)
            /\ onetimeSchedules' = [i \in DOMAIN onetimeSchedules |->
                                       IF i \in onetimeWake(now)
                                       THEN [onetimeSchedules[i] EXCEPT !.executed = TRUE]
                                       ELSE onetimeSchedules[i]]
            /\ wolSent' = IF dailyWake(now) \/ weeklyWake(now) # {} \/ onetimeWake(now) # {}
                          THEN wolSent + 1 ELSE wolSent
            /\ udp' = IF dailyWake(now) \/ weeklyWake(now) # {} \/ onetimeWake(now) # {}
                      THEN udp + sendWOL(targetMac) ELSE udp
    /\ lastOp' = Op("checkSchedule", FALSE)
    /\ result' = NoResult
    /\ UNCHANGED <<targetMac, dailyWakeup, weeklySchedules, firmware, sent, netVars>>
    /\ deskUnchanged

\* checkSchedule, called by every pass of loop(); wolSent counts the calls
\* of sendWOL, udp the magic packets broadcast.
checkSchedule ==
    /\ IF minute(now) = lastCheckedMinute
       THEN UNCHANGED <<lastCheckedMinute, onetimeSchedules, wolSent, udp>>
       ELSE /\ lastCheckedMinute' = minute(now)
            /\ onetimeSchedules' = [i \in DOMAIN onetimeSchedules |->
                                       IF i \in onetimeWake(now)
                                       THEN [onetimeSchedules[i] EXCEPT !.executed = TRUE]
                                       ELSE onetimeSchedules[i]]
            /\ wolSent' = IF dailyWake(now) \/ weeklyWake(now) # {} \/ onetimeWake(now) # {}
                          THEN wolSent + 1 ELSE wolSent
            /\ udp' = IF dailyWake(now) \/ weeklyWake(now) # {} \/ onetimeWake(now) # {}
                      THEN udp + sendWOL(targetMac) ELSE udp
    /\ lastOp' = Op("checkSchedule", FALSE)
    /\ result' = NoResult
    /\ UNCHANGED <<targetMac, dailyWakeup, weeklySchedules, firmware, sent, netVars>>
    /\ deskUnchanged

\* ------------------------------------------------- the desktop's sync
\* The text "YYYY-MM-DD HH:MM" of a wake-up entry is written as its five
\* numbers.  strptime reads it when the year has four digits and the
\* numbers are a date and a time of day; the f-string of the response
\* handler writes whatever numbers it is given.
DaysIn(y, mo) ==
    IF mo \in {4, 6, 9, 11} THEN 30
    ELSE IF mo # 2 THEN 31
    ELSE IF y % 4 = 0 /\ (y % 100 # 0 \/ y % 400 = 0) THEN 29 ELSE 28
Parses(text) ==
    /\ text[1] \in 1000..9999 /\ text[2] \in 1..12
    /\ text[3] \in 1..DaysIn(text[1], text[2])
    /\ text[4] \in 0..23 /\ text[5] \in 0..59
dt_str(s) == <<s.year, s.month, s.day, s.hour, s.minute>>

\* weekly_str and onetime_str of _sync_to_pico
RECURSIVE weekly_str(_)
weekly_str(list) ==
    IF list = <<>> THEN <<>>
    ELSE <<ToString(list[1].weekday), ",", ToString(list[1].hour), ",",
           ToString(list[1].minute), ";">> \o weekly_str(Tail(list))
RECURSIVE onetime_str(_)
onetime_str(list) ==
    IF list = <<>> THEN <<>>
    ELSE LET dt == list[1].datetime
             src == Get(list[1], "source", "manual")
         IN  (IF Parses(dt)
              THEN <<ToString(dt[1]), ",", ToString(dt[2]), ",", ToString(dt[3]), ",",
                     ToString(dt[4]), ",", ToString(dt[5]), ",">>
                   \o (IF src = "" THEN <<>> ELSE <<src>>) \o <<";">>
              ELSE <<>>)
             \o onetime_str(Tail(list))

post_data(pico, en, h, m) ==
    [d_en |-> <<ToString(en)>>, d_h |-> <<ToString(h)>>, d_m |-> <<ToString(m)>>,
     mac |-> pico.target_mac,
     weekly |-> weekly_str(pico.startup_weekly),
     onetime |-> onetime_str(pico.startup_onetime)]

\* _sync_to_pico with the daily wake-up setting of the widgets: without an
\* address it warns and returns; else it stores the setting, saves and
\* starts the worker thread that posts the request.
_sync_to_pico(en, h, m) ==
    /\ IF pico_settings.ip \in {"", "192.168.10.x"}
       THEN /\ lastOp' = Op("_sync_to_pico", TRUE)
            /\ UNCHANGED <<pico_settings, file, request>>
       ELSE LET pico == [pico_settings EXCEPT
                            !.startup_daily = [enabled |-> en = 1, hour |-> h, minute |-> m]]
            IN  /\ pico_settings' = pico
                /\ file' = save_pico(pico)
                /\ request' = [path |-> "/update_schedule",
                               args |-> post_data(pico, en, h, m)]
                /\ lastOp' = Op("_sync_to_pico", FALSE)
    /\ result' = NoResult
    /\ UNCHANGED <<now, daily_schedule, weekly_schedules, onetime_schedules, skipped_dates,
                   debug_mode, load_failed, threadVars, nextId, monitorVars, gateVars,
                   disclaimer_accepted, deviceVars, response>>

\* The entries _update_from_pico_response makes of the items of the reply,
\* each with an id of uuid.uuid4().
startup_weekly(s, id) == [id |-> id, weekday |-> s.weekday, hour |-> s.hour, minute |-> s.minute]
startup_onetime(s, id) ==
    [id |-> id, datetime |-> dt_str(s), source |-> Get(s, "source", "manual")]

\* The reply has come and json.loads has read it: _update_from_pico_response
\* runs on the UI thread with the data of the reply.
_update_from_pico_response_keep ==
    /\ response # NoMessage /\ response.code = 200 /\ response.type = "application/json"
    /\ pico_settings' = [pico_settings EXCEPT !.startup_daily = response.body.daily]
    /\ file' = save_pico(pico_settings')
    /\ response' = NoMessage
    /\ lastOp' = Op("_update_from_pico_response", FALSE)
    /\ result' = NoResult
    /\ UNCHANGED <<now, daily_schedule, weekly_schedules, onetime_schedules, skipped_dates,
                   debug_mode, load_failed, threadVars, nextId, monitorVars, gateVars,
                   disclaimer_accepted, deviceVars, request>>
_update_from_pico_response ==
    /\ response # NoMessage /\ response.code = 200 /\ response.type = "application/json"
    /\ LET json_data == response.body
           d == json_data.daily
           nw == Len(json_data.weekly)
           pico == [pico_settings EXCEPT
                       !.startup_daily = [enabled |-> Get(d, "enabled", FALSE),
                                          hour |-> Get(d, "hour", 0),
                                          minute |-> Get(d, "minute", 0)],
                       !.startup_weekly =
                           [i \in DOMAIN json_data.weekly |->
                               startup_weekly(json_data.weekly[i], nextId + i - 1)],
                       !.startup_onetime =
                           [i \in DOMAIN json_data.onetime |->
                               startup_onetime(json_data.onetime[i], nextId + nw + i - 1)]]
       IN  /\ pico_settings' = pico
           /\ nextId' = nextId + nw + Len(json_data.onetime)
           /\ file' = save_pico(pico)
    /\ response' = NoMessage
    /\ lastOp' = Op("_update_from_pico_response", FALSE)
    /\ result' = NoResult
    /\ UNCHANGED <<now, daily_schedule, weekly_schedules, onetime_schedules, skipped_dates,
                   debug_mode, load_failed, threadVars, monitorVars, gateVars,
                   disclaimer_accepted, deviceVars, request>>

\* The reply is no JSON: with a body holding "OK" the worker logs that the
\* data was sent, and the settings stay as they were; an error status
\* makes urlopen raise and the failure is logged.
_sync_worker ==
    /\ response # NoMessage /\ response.type # "application/json"
    /\ response' = NoMessage
    /\ lastOp' = Op("_sync_worker", ~(response.code = 200 /\ response.body = "OK"))
    /\ result' = NoResult
    /\ UNCHANGED <<now, storeVars, threadVars, monitorVars, gateVars, picoVars, deviceVars, request>>

\* ------------------------------------- the desktop and the device in sync
\* New ids are handed out up to this number.
MaxUuid == 30

\* The wake-up settings the desktop starts with: none (no address yet); an
\* address with two weekly and three one-time entries, one of them with a
\* date strptime does not read; an address with eleven entries of each
\* kind, the first ten alike.
Str(n) == <<ToString(n)>>
SmallPico ==
    [ip |-> "192.168.10.2", target_mac |-> MAC_COLONS,
     startup_daily |-> [enabled |-> FALSE, hour |-> 7, minute |-> 0],
     startup_weekly |-> <<[id |-> LoadedId(1), weekday |-> 0, hour |-> 0, minute |-> 1,
                           enabled |-> TRUE],
                          [id |-> LoadedId(2), weekday |-> 6, hour |-> 23, minute |-> 59,
                           enabled |-> TRUE]>>,
     startup_onetime |-> <<[id |-> LoadedId(3), datetime |-> <<2024, 1, 1, 0, 1>>,
                            enabled |-> TRUE, source |-> "manual"],
                           [id |-> LoadedId(4), datetime |-> <<2024, 2, 30, 0, 1>>,
                            enabled |-> TRUE, source |-> "manual"],
                           [id |-> LoadedId(5), datetime |-> <<2024, 1, 2, 0, 1>>,
                            enabled |-> TRUE, source |-> "quick"]>>]
LargePico ==
    [SmallPico EXCEPT
        !.startup_weekly = [i \in 1..(Capacity + 1) |->
                               [id |-> LoadedId(i), weekday |-> 0, hour |-> 0,
                                minute |-> IF i <= Capacity THEN 1 ELSE 2]],
        !.startup_onetime = [i \in 1..(Capacity + 1) |->
                                [id |-> LoadedId(20 + i),
                                 datetime |-> <<2024, 1, IF i <= Capacity THEN 1 ELSE 2, 0, 1>>,
                                 source |-> "web"]]]
Picos == {DefaultPico, SmallPico, LargePico}

Started(pico) ==
    /\ daily_schedule = DefaultDaily
    /\ weekly_schedules = <<>>
    /\ onetime_schedules = <<>>
    /\ skipped_dates = <<>>
    /\ debug_mode = FALSE
    /\ load_failed = FALSE
    /\ ui = UiIdle
    /\ poller = PollerIdle
    /\ workers = <<>>
    /\ pico_settings = pico
    /\ disclaimer_accepted = TRUE
    /\ file = data(DefaultDaily, <<>>, <<>>, pico, FALSE, TRUE, <<>>)
    /\ nextId = 1
    /\ last_minute = -1
    /\ polled = -1
    /\ pending = NoPending
    /\ showQueued = 0
    /\ result = NoResult
    /\ dialogs = <<>>
    /\ osActions = <<>>
    /\ displayHint = "default"
    /\ lastOp = Op("__init__", FALSE)

InitSync ==
    /\ now = MakeTime(0, 0, 1, 0)
    /\ \E pico \in Picos : Started(pico)
    /\ \E sketch \in {"GAS", "Standard"} : Setup(sketch)

\* What the widgets of the daily wake-up hold when the user syncs.
SyncDaily == {<<1, 0, 1>>, <<0, 7, 0>>}

\* Requests to /update_schedule from another client: one-time batches of
\* three items whose second item is a single number, a pair, a date
\* without a time or a date with an hour only; a weekly batch with a
\* single word and a pair among its items (each batch with a disabled
\* daily setting); a request with an empty MAC only; and the request the
\* desktop makes of eleven entries of each kind.
Item(fields) ==
    [i \in 1..(2 * Len(fields)) |-> IF i % 2 = 1 THEN fields[(i + 1) \div 2]
                                    ELSE IF i = 2 * Len(fields) THEN ";" ELSE ","]
FirstItem == Item(<<"2024", "1", "1", "0", "1">>)
ThirdItem == Item(<<"2024", "1", "3", "0", "1", "web">>)
MalformedItems ==
    {Item(<<"5">>), Item(<<"2024", "1">>), Item(<<"2024", "1", "2">>),
     Item(<<"2024", "1", "2", "0">>)}
OnetimeBatches == {FirstItem \o item \o ThirdItem : item \in MalformedItems}
WithOnetime(batch) == [d_en |-> Str(0), d_h |-> Str(7), d_m |-> Str(0), onetime |-> batch]
WithWeekly(batch) == [d_en |-> Str(0), d_h |-> Str(7), d_m |-> Str(0), weekly |-> batch]
WeeklyBatch ==
    Item(<<"1", "0", "1">>) \o Item(<<"x">>) \o Item(<<"1", "2">>) \o Item(<<"2", "0", "1">>)
BatchRequests == {WithOnetime(batch) : batch \in OnetimeBatches} \cup {WithWeekly(WeeklyBatch)}
LargeRequest == post_data(LargePico, 0, 7, 0)
OtherRequests ==
    {WithOnetime(FirstItem \o Item(<<"5">>) \o ThirdItem), WithWeekly(WeeklyBatch),
     [mac |-> ""], LargeRequest}

\* The desktop syncs; meanwhile another client sends a batch and a browser
\* deletes the first one-time entry.
NextSync ==
    \/ \E d \in SyncDaily :
          /\ request = NoMessage /\ response = NoMessage /\ nextId <= MaxUuid
          /\ _sync_to_pico(d[1], d[2], d[3])
    \/ (request # NoMessage /\ handleUpdateSchedule("app", request.args))
    \/ \E args \in BatchRequests : handleUpdateSchedule("other", args)
    \/ handleDeleteOneTime([idx |-> Str(0)])
    \/ _update_from_pico_response
    \/ _sync_worker

SpecSync == InitSync /\ [][NextSync]_vars

\* ------------------------------------------------ the device on its own
\* What a browser sends to the other routes.  It adds to a list that is
\* empty or full.
WeeklyForms == {[wd |-> Str(0), h |-> Str(0), m |-> Str(1)], [wd |-> Str(0), h |-> Str(0)]}
OneTimeForms ==
    {[Y |-> Str(2024), M |-> Str(1), D |-> Str(1), h |-> Str(0), m |-> Str(1)],
     [Y |-> Str(2024), M |-> Str(1), D |-> Str(1)]}
DeleteForms == {[idx |-> Str(0)], [idx |-> Str(Capacity)], [none |-> <<>>]}
DailyForms == {[enabled |-> <<"on">>, h |-> Str(0), m |-> Str(1)], [h |-> Str(7), m |-> Str(0)]}
AddAt == {0, Capacity}

InitDevice ==
    /\ now = MakeTime(0, 0, 1, 0)
    /\ Started(DefaultPico)
    /\ \E sketch \in {"GAS", "Standard"} : Setup(sketch)

NextDevice ==
    \/ \E args \in OtherRequests : handleUpdateSchedule("other", args)
    \/ \E args \in DailyForms : handleUpdateDaily(args)
    \/ \E args \in WeeklyForms : Len(weeklySchedules) \in AddAt /\ handleAddWeekly(args)
    \/ \E args \in DeleteForms : handleDeleteWeekly(args)
    \/ \E args \in OneTimeForms : Len(onetimeSchedules) \in AddAt /\ handleAddOneTime(args)
    \/ \E args \in DeleteForms : handleDeleteOneTime(args)
    \/ handleGetSchedule
    \/ checkSchedule

SpecDevice == InitDevice /\ [][NextDevice]_vars

\* The desktop's wake-up settings hold what the snapshot holds: the daily
\* setting, the weekly entries and the one-time entries with their
\* sources, in the snapshot's order and number.
CacheMatches(pico, body) ==
    /\ pico.startup_daily.enabled = body.daily.enabled
    /\ pico.startup_daily.hour = body.daily.hour
    /\ pico.startup_daily.minute = body.daily.minute
    /\ Len(pico.startup_weekly) = Len(body.weekly)
    /\ \A i \in Indices(body.weekly) :
          /\ pico.startup_weekly[i].weekday = body.weekly[i].weekday
          /\ pico.startup_weekly[i].hour = body.weekly[i].hour
          /\ pico.startup_weekly[i].minute = body.weekly[i].minute
    /\ Len(pico.startup_onetime) = Len(body.onetime)
    /\ \A i \in Indices(body.onetime) :
          /\ pico.startup_onetime[i].datetime =
                <<body.onetime[i].year, body.onetime[i].month, body.onetime[i].day,
                  body.onetime[i].hour, body.onetime[i].minute>>
          /\ pico.startup_onetime[i].source = body.onetime[i].source
\* The step ends a sync: the reply has been read as a snapshot, or it was
\* the plain "OK" that the worker logs as sent.
Completed ==
    \/ lastOp'.op = "_update_from_pico_response"
    \/ lastOp'.op = "_sync_worker" /\ ~lastOp'.rejected

Take(list, n) == SubSeq(list, 1, IF Len(list) < n THEN Len(list) ELSE n)
\* The weekly entries and the readable one-time entries of the desktop, as
\* slots of the device.
SentWeekly(pico) ==
    [i \in DOMAIN pico.startup_weekly |->
        [weekday |-> pico.startup_weekly[i].weekday, hour |-> pico.startup_weekly[i].hour,
         minute |-> pico.startup_weekly[i].minute]]
SentDates(pico) ==
    [i \in DOMAIN pico.startup_onetime |-> pico.startup_onetime[i].datetime]
Dates(slots) ==
    [i \in DOMAIN slots |->
        <<slots[i].year, slots[i].month, slots[i].day, slots[i].hour, slots[i].minute>>]

\* C17: the device never holds more than ten weekly or more than ten
\* one-time entries; a bulk update made of eleven entries of a kind leaves
\* the first ten of them, in order; an add request to a full list leaves
\* the list as it is, an add to a list with room makes it one longer at
\* most, and a delete request makes it one shorter at most.
C17_CountsWithinCapacity ==
    [][/\ Len(weeklySchedules') \in 0..Capacity
       /\ Len(onetimeSchedules') \in 0..Capacity
       /\ lastOp'.op = "handleUpdateSchedule"
             /\ handleUpdateSchedule("other", LargeRequest) =>
             /\ weeklySchedules' = Take(SentWeekly(LargePico), 10)
             /\ Dates(onetimeSchedules') = Take(SentDates(LargePico), 10)
       /\ \A args \in WeeklyForms :
             lastOp'.op = "handleAddWeekly" /\ handleAddWeekly(args) =>
                 /\ Len(weeklySchedules) = 10 => weeklySchedules' = weeklySchedules
                 /\ Len(weeklySchedules') \in {Len(weeklySchedules), Len(weeklySchedules) + 1}
       /\ \A args \in OneTimeForms :
             lastOp'.op = "handleAddOneTime" /\ handleAddOneTime(args) =>
                 /\ Len(onetimeSchedules) = 10 => onetimeSchedules' = onetimeSchedules
                 /\ Len(onetimeSchedules') \in {Len(onetimeSchedules), Len(onetimeSchedules) + 1}
       /\ \A args \in DeleteForms :
             /\ lastOp'.op = "handleDeleteWeekly" /\ handleDeleteWeekly(args) =>
                   Len(weeklySchedules') \in {Len(weeklySchedules), Len(weeklySchedules) - 1}
             /\ lastOp'.op = "handleDeleteOneTime" /\ handleDeleteOneTime(args) =>
                   Len(onetimeSchedules') \in {Len(onetimeSchedules), Len(onetimeSchedules) - 1}]_vars

\* A bulk update of eleven entries of each kind has left ten of each, the
\* check has marked the ten one-time entries executed, and an add request
\* to the full one-time list has just left it with these ten.
C17_Witness ==
    /\ lastOp.op = "handleAddOneTime"
    /\ Len(weeklySchedules) = 10 /\ Len(onetimeSchedules) = 10
    /\ \A i \in Indices(onetimeSchedules) : onetimeSchedules[i].executed

\* C18: a bulk update whose one-time batch has a malformed item between
\* two well-formed ones leaves exactly the two well-formed entries, in
\* order, on the device; and a weekly batch with two malformed items among
\* four leaves the two well-formed entries.
C18_MalformedItemDropped ==
    [][/\ \A batch \in OnetimeBatches :
             lastOp'.op = "handleUpdateSchedule"
                 /\ handleUpdateSchedule("other", WithOnetime(batch)) =>
                 Dates(onetimeSchedules') = <<<<2024, 1, 1, 0, 1>>, <<2024, 1, 3, 0, 1>>>>
       /\ lastOp'.op = "handleUpdateSchedule"
             /\ handleUpdateSchedule("other", WithWeekly(WeeklyBatch)) =>
             weeklySchedules' = <<[weekday |-> 1, hour |-> 0, minute |-> 1],
                                  [weekday |-> 2, hour |-> 0, minute |-> 1]>>]_vars

\* The body is the snapshot of the given globals.
SnapshotOf(body, daily, weekly, onetime) ==
    /\ body.daily = daily
    /\ body.weekly = weekly
    /\ Len(body.onetime) = Len(onetime)
    /\ \A i \in Indices(onetime) :
          /\ Dates(body.onetime)[i] = Dates(onetime)[i]
          /\ body.onetime[i].source = onetime[i].source

\* C19: a get-schedule request leaves the target MAC, the daily wake
\* setting, the weekly and the one-time entries with their executed flags,
\* and what the schedule check keeps, as they are; its reply is the JSON
\* snapshot of these globals, and straight after a bulk update it is the
\* very reply the bulk update gave.
C19_GetScheduleReadsOnly ==
    [][lastOp'.op = "handleGetSchedule" =>
          /\ UNCHANGED <<targetMac, dailyWakeup, weeklySchedules, onetimeSchedules,
                         lastCheckedMinute, wolSent>>
          /\ sent'.code = 200 /\ sent'.type = "application/json"
          /\ SnapshotOf(sent'.body, dailyWakeup, weeklySchedules, onetimeSchedules)
          /\ lastOp.op = "handleUpdateSchedule" => sent' = sent]_vars

\* The device holds a target MAC, ten weekly entries and ten one-time
\* entries which the check has marked executed, and a get-schedule
\* request has just been answered with ten one-time entries.
C19_Witness ==
    /\ lastOp.op = "handleGetSchedule"
    /\ targetMac # "" /\ Len(weeklySchedules) = 10
    /\ Len(onetimeSchedules) = 10 /\ onetimeSchedules[1].executed
    /\ Len(sent.body.onetime) = 10

\* ------------------------------------------------ the device over a week
\* The device's clock is read on the minute 00:00 and on 00:01 of Monday,
\* of the six days after it and of the Monday after those.
WakeDays == 0..7
WakeClock == {MakeTime(d, 0, m, 0) : d \in WakeDays, m \in {0, 1}}

\* millis() and the time client's clock run on to the next of these
\* instants.
millis ==
    /\ \E t \in WakeClock :
          /\ t > now
          /\ \A u \in WakeClock : u > now => t <= u
          /\ now' = t
    /\ lastOp' = Op("millis", FALSE)
    /\ result' = NoResult
    /\ UNCHANGED <<storeVars, threadVars, monitorVars, gateVars, syncVars>>

\* A bulk update with one weekly entry at 00:01, for each wire weekday.
WireWeekdays == 0..6
WakeRequests == {WithWeekly(Item(<<ToString(w), "0", "1">>)) : w \in WireWeekdays}

InitWake ==
    /\ now = MakeTime(0, 0, 0, 0)
    /\ Started(DefaultPico)
    /\ \E sketch \in {"GAS", "Standard"} : Setup(sketch)

\* loop() makes many passes a minute, so the clock moves on only from an
\* instant which checkSchedule has seen.
NextWake ==
    \/ \E args \in WakeRequests : handleUpdateSchedule("other", args)
    \/ checkSchedule
    \/ (lastCheckedMinute = minute(now) /\ millis)

SpecWake == InitWake /\ [][NextWake]_vars

\* The weekly entries of the device the desktop's matching selects at
\* time t: weekday() of the desktop's clock, 0 = Monday .. 6 = Sunday.
DesktopSelects(t) ==
    {i \in Indices(weeklySchedules) :
        (weeklySchedules[i].weekday * 24 + weeklySchedules[i].hour) * 60
            + weeklySchedules[i].minute = (t \div 60) % (7 * 24 * 60)}

\* C20: when checkSchedule looks at a new minute with no daily and no
\* one-time wake-up set, it calls sendWOL exactly when some
\* weekly entry has this hour and minute and the wire weekday
\* (d + 6) mod 7, d being the weekday of the time client (0 = Sunday);
\* these are the entries the desktop's matching selects at that time.
C20_WeekdayTranslated ==
    [][/\ lastOp'.op = "checkSchedule"
       /\ minute(now) # lastCheckedMinute
       /\ ~dailyWakeup.enabled
       /\ onetimeSchedules = <<>>
       => /\ wolSent' = wolSent + 1 <=>
                \E i \in Indices(weeklySchedules) :
                    /\ weeklySchedules[i].weekday = (getDay(now) + 6) % 7
                    /\ weeklySchedules[i].hour = hour(now)
                    /\ weeklySchedules[i].minute = minute(now)
          /\ wolSent' = wolSent + 1 <=> DesktopSelects(now) # {}
          /\ wolSent' \in {wolSent, wolSent + 1}]_vars

\* On Sunday 00:01, day 0 of the time client, checkSchedule has called
\* sendWOL for the first time, for a weekly entry of wire weekday 6.
C20_Witness ==
    /\ lastOp.op = "checkSchedule"
    /\ now = MakeTime(6, 0, 1, 0) /\ getDay(now) = 0
    /\ weeklySchedules = <<[weekday |-> 6, hour |-> 0, minute |-> 1]>>
    /\ lastCheckedMinute = 1
    /\ wolSent = 1

\* Some wake-up schedule of the device matches the minute of time t.
WakeMatches(t) == dailyWake(t) \/ weeklyWake(t) # {} \/ onetimeWake(t) # {}

\* C21: with a target MAC of six hexadecimal bytes set, a checkSchedule
\* that looks at a new minute broadcasts one magic packet when a daily, a
\* weekly or an unexecuted one-time wake-up matches the minute, however
\* many match, and none when nothing matches; a checkSchedule in the
\* minute already looked at broadcasts nothing.
C21_WakeBroadcastOnMatch ==
    [][lastOp'.op = "checkSchedule" /\ targetMac = MAC_COLONS =>
          IF minute(now) # lastCheckedMinute /\ WakeMatches(now)
          THEN udp' = udp + 1
          ELSE udp' = udp]_vars

\* ------------------------------------------- numbers typed into the forms
\* The spin boxes of the desktop take typed text, and the device takes
\* whatever the request carries: a time of 00:01, 24:01 or 00:60, on
\* weekday 0 or, with 00:01, weekday 7.  The desktop's weekday comes from a
\* read-only list.
TypedTimes == {<<0, 1>>, <<24, 1>>, <<0, 60>>}
TypedSlots == {<<0, t[1], t[2]>> : t \in TypedTimes} \cup {<<7, 0, 1>>}
RangeDaily == {[enabled |-> <<"on">>, h |-> Str(t[1]), m |-> Str(t[2])] : t \in TypedTimes}
RangeWeekly == {[wd |-> Str(t[1]), h |-> Str(t[2]), m |-> Str(t[3])] : t \in TypedSlots}
RangeBatches ==
    {WithWeekly(Item(<<ToString(t[1]), ToString(t[2]), ToString(t[3])>>)) : t \in TypedSlots}

InitRange ==
    /\ now = MakeTime(0, 0, 0, 0)
    /\ Started(DefaultPico)
    /\ \E sketch \in {"GAS", "Standard"} : Setup(sketch)

NextRange ==
    \/ \E t \in TypedTimes : _on_daily_changed(ACTION_SHUTDOWN, TRUE, t[1], t[2])
    \/ \E t \in TypedTimes : _add_weekly(ACTION_SHUTDOWN, 0, t[1], t[2])
    \/ \E t \in TypedTimes : _add_onetime(ACTION_SHUTDOWN, 0, t[1], t[2])
    \/ \E args \in RangeDaily : handleUpdateDaily(args)
    \/ \E args \in RangeWeekly : Len(weeklySchedules) = 0 /\ handleAddWeekly(args)
    \/ \E args \in RangeBatches : handleUpdateSchedule("other", args)

SpecRange == InitRange /\ [][NextRange]_vars

InRange(s) == s.hour \in 0..23 /\ s.minute \in 0..59
WeekdayInRange(s) == s.weekday \in 0..6

\* C22: every daily setting and every weekly entry of the desktop's store
\* and of the device has its hour in 0..23 and its minute in 0..59, and
\* every weekly entry its weekday in 0..6.
C22_RangesHold ==
    /\ \A a \in Actions : InRange(daily_schedule[a])
    /\ \A i \in Indices(weekly_schedules) :
          InRange(weekly_schedules[i]) /\ WeekdayInRange(weekly_schedules[i])
    /\ InRange(dailyWakeup)
    /\ \A i \in Indices(weeklySchedules) :
          InRange(weeklySchedules[i]) /\ WeekdayInRange(weeklySchedules[i])

\* --------------------------------------------- the executed flags over time
\* The desktop starts on a state file with one one-time entry, or on one
\* whose one-time list has an unreadable item after that entry; the device
\* is sent, again and again, a batch of a one-time wake-up two days ahead
\* and one at 00:01 of the first day.
FlagFiles ==
    {data(DefaultDaily, <<>>, <<FileOnetime>>, DefaultPico, FALSE, TRUE, <<>>),
     [daily |-> DefaultDaily, weekly_schedules |-> <<>>,
      onetime |-> <<FileOnetime, NotADict>>, debug_mode |-> FALSE, skipped_dates |-> <<>>]}
ResentBatch == WithOnetime(ThirdItem \o FirstItem)

InitFlags ==
    /\ now = 0
    /\ file \in FlagFiles
    /\ LET st == load(file, LegacyId)
       IN  /\ daily_schedule = st.daily_schedule
           /\ weekly_schedules = st.weekly_schedules
           /\ onetime_schedules = st.onetime_schedules
           /\ skipped_dates = st.skipped_dates
           /\ debug_mode = st.debug_mode
           /\ load_failed = st.load_failed
           /\ ui = UiIdle
           /\ poller = PollerIdle
           /\ workers = <<>>
           /\ pico_settings = st.pico_settings
           /\ disclaimer_accepted = st.disclaimer_accepted
    /\ nextId = 1
    /\ last_minute = -1
    /\ polled = -1
    /\ pending = NoPending
    /\ showQueued = 0
    /\ result = NoResult
    /\ dialogs = <<>>
    /\ osActions = <<>>
    /\ displayHint = "default"
    /\ lastOp = Op("__init__", FALSE)
    /\ \E sketch \in {"GAS", "Standard"} : Setup(sketch)

NextFlags ==
    \/ (sleep /\ now' \in PersistClock)
    \/ _monitor_loop
    \/ __init__
    \/ _cancel_all
    \/ _add_onetime(ACTION_SHUTDOWN, 0, 0, 1)
    \/ \E id \in OnetimeIds : _remove_selected_onetime(id)
    \/ \E a \in Actions : _clear_executed_onetime(a)
    \/ handleUpdateSchedule("other", ResentBatch)
    \/ checkSchedule
    \/ handleDeleteOneTime([idx |-> Str(0)])

SpecFlags == InitFlags /\ [][NextFlags]_vars

\* An executed one-time entry of the desktop that is still in the store
\* after the step is still executed, and it leaves the store only by a
\* remove, the clear-executed sweep or a start of the process.
DesktopKeepsExecuted ==
    \A i \in Indices(onetime_schedules) :
        onetime_schedules[i].executed =>
            IF \E j \in Indices(onetime_schedules') :
                  onetime_schedules'[j].id = onetime_schedules[i].id
            THEN \A j \in Indices(onetime_schedules') :
                    onetime_schedules'[j].id = onetime_schedules[i].id =>
                        onetime_schedules'[j].executed
            ELSE lastOp'.op \in {"_remove_selected_onetime", "_remove_selected_quick",
                                 "_clear_executed_onetime", "_cancel_all", "__init__"}
\* A slot of the device that holds the same date after the step as before
\* it, and was executed, is still executed.
DeviceKeepsExecuted ==
    \A i \in Indices(onetimeSchedules) :
        /\ onetimeSchedules[i].executed
        /\ i \in Indices(onetimeSchedules')
        /\ Dates(onetimeSchedules')[i] = Dates(onetimeSchedules)[i]
        => onetimeSchedules'[i].executed
\* A delete request of the device takes one slot out and moves the slots
\* behind it down as they are.
DeleteKeepsExecuted ==
    IF Len(onetimeSchedules') = Len(onetimeSchedules)
    THEN onetimeSchedules' = onetimeSchedules
    ELSE /\ Len(onetimeSchedules') = Len(onetimeSchedules) - 1
         /\ \A i \in Indices(onetimeSchedules') :
               onetimeSchedules'[i] \in {onetimeSchedules[i], onetimeSchedules[i + 1]}

\* C23 as stated: no step sets the executed flag of a one-time entry of
\* the desktop or of the device back to false; an executed entry stops
\* being executed only by being removed.
C23_ExecutedNeverReset ==
    [][/\ DesktopKeepsExecuted
       /\ lastOp'.op # "handleDeleteOneTime" => DeviceKeepsExecuted
       /\ lastOp'.op = "handleDeleteOneTime" => DeleteKeepsExecuted]_vars

\* C23: the same, except for a start of the desktop after a run whose load
\* had failed, which loads the entries as the frozen state file holds
\* them, and for a bulk update of the device, which builds every slot
\* anew with executed = false.
C23_ExecutedKeptExceptReloadAndBulk ==
    [][/\ ~(lastOp'.op = "__init__" /\ load_failed) => DesktopKeepsExecuted
       /\ lastOp'.op \notin {"handleDeleteOneTime", "handleUpdateSchedule"} => DeviceKeepsExecuted
       /\ lastOp'.op = "handleDeleteOneTime" => DeleteKeepsExecuted]_vars

\* The desktop holds an executed one-time entry next to one added later
\* and has just removed another one, and the device has marked its wake-up
\* of 00:01 executed and been asked to delete the slot before it.
C23_Witness ==
    /\ \E i \in Indices(onetime_schedules) : onetime_schedules[i].executed
    /\ \E i \in Indices(onetime_schedules) : ~onetime_schedules[i].executed
    /\ lastOp.op = "handleDeleteOneTime"
    /\ Len(onetimeSchedules) = 1 /\ onetimeSchedules[1].executed

\* C24: a pass of the monitor thread runs check_and_execute exactly when
\* it is the thread's first pass in the minute (date, hour and minute) it
\* finds on the clock: once for every minute in which the thread makes a
\* pass, whatever time went by since the pass before.
C24_OncePerPolledMinute ==
    [][lastOp'.op = "_monitor_loop" => (result'.called <=> strftime(now) # polled)]_vars

WeeklyCandidates(t, id) ==
    {c.dt : c \in {e \in {candidates(t)[k] : k \in DOMAIN candidates(t)} :
                      e.type = "weekly" /\ e.id = id}}
DailyCandidates(t, action) ==
    {c.dt : c \in {e \in {candidates(t)[k] : k \in DOMAIN candidates(t)} :
                      e.type = "daily" /\ e.action = action}}

\* C26: in the candidates of the resolver every weekly entry stands with
\* the earliest of its next 5 occurrences, 7 days apart, that is not
\* skipped, and with nothing when all 5 are skipped; every enabled daily
\* setting likewise with its next 5 occurrences, 1 day apart; a disabled
\* daily setting stands with nothing.
C26_AtMostFiveProbes ==
    /\ \A i \in Indices(weekly_schedules) :
          WeeklyCandidates(now, weekly_schedules[i].id) =
              NextFree(FirstAfter(now, MakeTime(weekly_schedules[i].weekday,
                                                weekly_schedules[i].hour,
                                                weekly_schedules[i].minute, 0), Week),
                       Week, 5)
    /\ \A a \in Actions :
          DailyCandidates(now, a) =
              IF daily_schedule[a].enabled
              THEN NextFree(FirstAfter(now, MakeTime(0, daily_schedule[a].hour,
                                                     daily_schedule[a].minute, 0), 86400),
                            86400, 5)
              ELSE {}

\* The user has skipped the next five occurrences of an enabled daily
\* setting, and the resolver has no candidate for it.
C26_Witness ==
    /\ lastOp.op = "_cancel_all"
    /\ Len(skipped_dates) = 5
    /\ \E a \in Actions :
          /\ daily_schedule[a].enabled
          /\ DailyCandidates(now, a) = {}
          /\ \A k \in 0..4 :
                Skipped(FirstAfter(now, MakeTime(0, daily_schedule[a].hour,
                                                 daily_schedule[a].minute, 0), 86400)
                        + k * 86400)

\* C27: the Confirm button of an open dialog sends the OS command of the
\* dialog's action in that very step, whatever the countdown shows, and
\* closes the dialog; from then on exactly one command stands for that
\* dialog and no later step, the tick that was still scheduled included,
\* sends another.
C27_ConfirmExecutesOnce ==
    [][/\ \A i \in Indices(dialogs) :
             lastOp'.op = "do_ex" /\ do_ex(i) =>
                 /\ osActions' =
                       Append(osActions,
                              [command |-> [cmd |-> "shutdown", flag |-> FlagOf(dialogs[i].action)],
                               dialog |-> i, by |-> "confirm"])
                 /\ ~dialogs'[i].open
       /\ \A i \in Indices(dialogs) :
             dialogs[i].by = "confirm" =>
                 /\ Cardinality(Executed(i)) = 1
                 /\ \A k \in Indices(osActions') :
                       k > Len(osActions) => osActions'[k].dialog # i]_vars

\* A dialog was confirmed with more than a second of its countdown left,
\* the second at which the countdown would have run out has passed, and
\* one command was sent for it.
C27_Witness ==
    \E i \in Indices(dialogs) :
        /\ dialogs[i].by = "confirm"
        /\ dialogs[i].cnt > 1
        /\ now >= dialogs[i].due + dialogs[i].cnt
        /\ Cardinality(Executed(i)) = 1

\* Two one-time entries that differ in nothing but the executed flag.
SameButExecuted(s, u) == [s EXCEPT !.executed = u.executed] = u

\* C28: a check_and_execute call leaves the daily settings, the weekly
\* entries, the skipped dates and the id counter as they were, keeps every
\* one-time entry in its place with its id, action, datetime and source,
\* never takes an executed flag back, and sets the flag of one entry when it
\* triggers a one-time entry and of none when it triggers a recurring entry,
\* suppresses a skipped one, or finds nothing due.
C28_CheckChangesOneFlag ==
    [][result'.called =>
         /\ daily_schedule' = daily_schedule
         /\ weekly_schedules' = weekly_schedules
         /\ skipped_dates' = skipped_dates
         /\ nextId' = nextId
         /\ DOMAIN onetime_schedules' = DOMAIN onetime_schedules
         /\ \A i \in Indices(onetime_schedules) :
               /\ SameButExecuted(onetime_schedules[i], onetime_schedules'[i])
               /\ onetime_schedules[i].executed => onetime_schedules'[i].executed
         /\ Cardinality(Flipped) =
               (IF result'.ret /\ result'.kind = "onetime" THEN 1 ELSE 0)]_vars

\* A call that set the flag of a one-time entry with weekly entries and
\* skipped dates in the store.
C28_Witness ==
    /\ result.called /\ result.ret /\ result.kind = "onetime"
    /\ skipped_dates # <<>>
    /\ weekly_schedules # <<>>
    /\ \E i \in Indices(onetime_schedules) :
          onetime_schedules[i].id = result.id /\ onetime_schedules[i].executed

\* ------------------------------------------- two threads on one store
\* The handlers run on the UI thread and _monitor_loop on its own thread,
\* with nothing but the lock inside save() between them.  Each is followed
\* here statement by statement: the change of the store, the dictionary
\* `data` built by save() from the names of the store, and, under
\* self.lock, open() and json.dump(); the lock makes that last statement of
\* one thread a single step for the other.
MaxCalls == 2       \* handlers the UI thread runs while the monitor thread is followed

\* The list a name stands for, and the name after self.onetime_schedules
\* has been bound to a new list.
deref(name) == IF name.live THEN onetime_schedules ELSE name.obj
rebind(name) == IF name.live THEN Retired(onetime_schedules) ELSE name

\* What every statement of either thread leaves alone.
stepUnchanged == UNCHANGED <<syncVars, now, debug_mode, load_failed, gateVars, workers>>
uiStep(name) ==
    /\ lastOp' = Op(name, FALSE)
    /\ result' = NoResult
    /\ UNCHANGED <<last_minute, polled, showQueued>>
    /\ stepUnchanged

\* add_onetime: the entry is appended to the list in place.
ui_add_onetime(action, when) ==
    /\ ui.pc = "idle" /\ ui.n < MaxCalls /\ nextId <= MaxId
    /\ onetime_schedules' =
          Append(onetime_schedules,
                 [id |-> nextId, action |-> action, datetime |-> when,
                  executed |-> FALSE, source |-> "manual"])
    /\ nextId' = nextId + 1
    /\ ui' = [ui EXCEPT !.pc = "save", !.call = [op |-> "add_onetime", arg |-> nextId]]
    /\ UNCHANGED <<daily_schedule, weekly_schedules, skipped_dates, file, pending, poller>>
    /\ uiStep("add_onetime")

\* remove_onetime and clear_executed_onetime: the list comprehension picks
\* the entries of the new list ...
ui_remove_onetime(schedule_id) ==
    /\ ui.pc = "idle" /\ ui.n < MaxCalls
    /\ \E i \in Indices(onetime_schedules) : onetime_schedules[i].id = schedule_id
    /\ ui' = [ui EXCEPT !.pc = "assign",
                        !.call = [op |-> "remove_onetime", arg |-> schedule_id],
                        !.kept = {onetime_schedules[i].id : i \in Indices(onetime_schedules)}
                                    \ {schedule_id}]
    /\ UNCHANGED <<daily_schedule, weekly_schedules, onetime_schedules, skipped_dates, file,
                   nextId, pending, poller>>
    /\ uiStep("remove_onetime")

ui_clear_executed_onetime(action) ==
    /\ ui.pc = "idle" /\ ui.n < MaxCalls
    /\ ui' = [ui EXCEPT !.pc = "assign",
                        !.call = [op |-> "clear_executed_onetime", arg |-> action],
                        !.kept = {onetime_schedules[i].id : i \in
                                     {j \in Indices(onetime_schedules) :
                                         ~(onetime_schedules[j].action = action
                                             /\ onetime_schedules[j].executed)}}]
    /\ UNCHANGED <<daily_schedule, weekly_schedules, onetime_schedules, skipped_dates, file,
                   nextId, pending, poller>>
    /\ uiStep("clear_executed_onetime")

\* ... and self.onetime_schedules is bound to it.  The entries are the same
\* dictionaries as before; a name the monitor thread holds keeps the old list.
ui_assign ==
    /\ ui.pc = "assign"
    /\ onetime_schedules' = SelectSeq(onetime_schedules, LAMBDA s : s.id \in ui.kept)
    /\ poller' = [poller EXCEPT !.loop = IF poller.pc = "loop" THEN rebind(@) ELSE @,
                                !.data = IF poller.pc = "write" THEN rebind(@) ELSE @]
    /\ ui' = [ui EXCEPT !.pc = "save"]
    /\ UNCHANGED <<daily_schedule, weekly_schedules, skipped_dates, file, nextId, pending>>
    /\ uiStep(ui.call.op)

\* _on_daily_changed: the setting is assigned into the dictionary.
ui_on_daily_changed(action, e, h, m) ==
    /\ ui.pc = "idle" /\ ui.n < MaxCalls
    /\ ~(e /\ check_conflict(action, "daily", [hour |-> h, minute |-> m]) # NoConflict)
    /\ daily_schedule' = [daily_schedule EXCEPT ![action] = [enabled |-> e, hour |-> h, minute |-> m]]
    /\ ui' = [ui EXCEPT !.pc = "save",
                        !.call = [op |-> "_on_daily_changed",
                                  arg |-> <<action, [enabled |-> e, hour |-> h, minute |-> m]>>]]
    /\ UNCHANGED <<weekly_schedules, onetime_schedules, skipped_dates, file, nextId, pending,
                   poller>>
    /\ uiStep("_on_daily_changed")

\* _cancel_all: a one-time next event goes through remove_onetime, the
\* timestamp of a recurring one is appended to skipped_dates.
ui_cancel_all ==
    LET ev == get_next_event_info(now)
    IN  /\ ui.pc = "idle" /\ ui.n < MaxCalls
        /\ ev.dt # -1
        /\ pending' = [pending EXCEPT !.active = FALSE]
        /\ IF ev.type = "onetime"
           THEN /\ ui' = [ui EXCEPT !.pc = "assign",
                                    !.call = [op |-> "remove_onetime", arg |-> ev.id],
                                    !.kept = {onetime_schedules[i].id :
                                                 i \in Indices(onetime_schedules)} \ {ev.id}]
                /\ UNCHANGED skipped_dates
           ELSE /\ skipped_dates' = Append(skipped_dates, strftime(ev.dt))
                /\ ui' = [ui EXCEPT !.pc = "save",
                                    !.call = [op |-> "skip", arg |-> strftime(ev.dt)]]
        /\ UNCHANGED <<daily_schedule, weekly_schedules, onetime_schedules, file, nextId, poller>>
        /\ uiStep("_cancel_all")

\* save(), first statement: data = {...}, unless the load had failed.
ui_save_data ==
    /\ ui.pc = "save"
    /\ ui' = IF load_failed
             THEN [ui EXCEPT !.pc = "idle", !.last = ui.call, !.n = @ + 1]
             ELSE [ui EXCEPT !.pc = "write", !.data = Live]
    /\ UNCHANGED <<daily_schedule, weekly_schedules, onetime_schedules, skipped_dates, file,
                   nextId, pending, poller>>
    /\ uiStep(ui.call.op)

\* save(), under the lock: the file is written from what data names.
ui_save_write ==
    /\ ui.pc = "write"
    /\ file' = snapshot(daily_schedule, weekly_schedules, deref(ui.data), skipped_dates,
                        debug_mode)
    /\ ui' = [ui EXCEPT !.pc = "idle", !.last = ui.call, !.n = @ + 1]
    /\ UNCHANGED <<daily_schedule, weekly_schedules, onetime_schedules, skipped_dates, nextId,
                   pending, poller>>
    /\ uiStep(ui.call.op)

\* _monitor_loop up to the first loop of check_and_execute: on a minute
\* other than the last one checked, now is read and the loop is entered
\* over the list self.onetime_schedules is bound to.
poller_enter ==
    /\ poller.pc = "idle"
    /\ polled' = strftime(now)
    /\ IF minute(now) # last_minute
       THEN /\ last_minute' = minute(now)
            /\ poller' = [poller EXCEPT !.pc = "loop", !.t = now, !.loop = Live]
       ELSE UNCHANGED <<last_minute, poller>>
    /\ lastOp' = Op("_monitor_loop", FALSE)
    /\ result' = NoResult
    /\ UNCHANGED <<daily_schedule, weekly_schedules, onetime_schedules, skipped_dates, file,
                   nextId, pending, showQueued, ui>>
    /\ stepUnchanged

\* The loops of check_and_execute.  A one-time match sets s["executed"] on
\* the entry and goes on to save(); a weekly or daily match, or none,
\* returns from the call.
poller_loop ==
    LET t == poller.t
        list == deref(poller.loop)
        i == FirstIndex(list, LAMBDA s : ~s.executed /\ Abs(t - strptime(s.datetime)) < MatchWindow)
        Res(ret, kind, action, id, skipped) ==
            [called |-> TRUE, ret |-> ret, kind |-> kind, action |-> action, id |-> id,
             skipped |-> skipped]
    IN  /\ poller.pc = "loop"
        /\ IF i # 0
           THEN /\ onetime_schedules' =
                      [k \in DOMAIN onetime_schedules |->
                          IF onetime_schedules[k].id = list[i].id
                          THEN [onetime_schedules[k] EXCEPT !.executed = TRUE]
                          ELSE onetime_schedules[k]]
                /\ poller' = [poller EXCEPT !.pc = "save", !.loop = Live, !.id = list[i].id,
                                            !.action = list[i].action,
                                            !.trigger = <<"onetime", list[i].datetime>>]
                /\ result' = NoResult
                /\ UNCHANGED <<pending, showQueued>>
           ELSE /\ poller' = [poller EXCEPT !.pc = "idle", !.loop = Live]
                /\ UNCHANGED onetime_schedules
                /\ IF weekly_match(t) # 0
                   THEN LET s == weekly_schedules[weekly_match(t)]
                        IN  IF is_skipped(t)
                            THEN /\ UNCHANGED pending
                                 /\ result' = Res(FALSE, "weekly", s.action, s.id, TRUE)
                            ELSE /\ _execute_action(s.action, <<"weekly", s.weekday, s.hour, s.minute>>)
                                 /\ result' = Res(TRUE, "weekly", s.action, s.id, FALSE)
                   ELSE IF daily_match(t) # 0
                   THEN LET action == DailyOrder[daily_match(t)]
                            setting == daily_schedule[action]
                        IN  IF is_skipped(t)
                            THEN /\ UNCHANGED pending
                                 /\ result' = Res(FALSE, "daily", action, 0, TRUE)
                            ELSE /\ _execute_action(action, <<"daily", setting.hour, setting.minute>>)
                                 /\ result' = Res(TRUE, "daily", action, 0, FALSE)
                   ELSE /\ UNCHANGED pending
                        /\ result' = Res(FALSE, "", "", 0, FALSE)
                /\ showQueued' = IF result'.ret /\ pending'.active THEN showQueued + 1 ELSE showQueued
        /\ lastOp' = Op("_monitor_loop", FALSE)
        /\ UNCHANGED <<daily_schedule, weekly_schedules, skipped_dates, file, nextId,
                       last_minute, polled, ui>>
        /\ stepUnchanged

poller_save_data ==
    /\ poller.pc = "save"
    /\ poller' = IF load_failed THEN [poller EXCEPT !.pc = "exec"]
                 ELSE [poller EXCEPT !.pc = "write", !.data = Live]
    /\ lastOp' = Op("_monitor_loop", FALSE)
    /\ result' = NoResult
    /\ UNCHANGED <<daily_schedule, weekly_schedules, onetime_schedules, skipped_dates, file,
                   nextId, monitorVars, ui>>
    /\ stepUnchanged

poller_save_write ==
    /\ poller.pc = "write"
    /\ file' = snapshot(daily_schedule, weekly_schedules, deref(poller.data), skipped_dates,
                        debug_mode)
    /\ poller' = [poller EXCEPT !.pc = "exec", !.data = Live]
    /\ lastOp' = Op("_monitor_loop", FALSE)
    /\ result' = NoResult
    /\ UNCHANGED <<daily_schedule, weekly_schedules, onetime_schedules, skipped_dates, nextId,
                   monitorVars, ui>>
    /\ stepUnchanged

\* _execute_action and the return of the call into _monitor_loop.
poller_return ==
    /\ poller.pc = "exec"
    /\ _execute_action(poller.action, poller.trigger)
    /\ result' = [called |-> TRUE, ret |-> TRUE, kind |-> "onetime", action |-> poller.action,
                  id |-> poller.id, skipped |-> FALSE]
    /\ showQueued' = IF pending'.active THEN showQueued + 1 ELSE showQueued
    /\ poller' = [poller EXCEPT !.pc = "idle", !.n = @ + 1]
    /\ lastOp' = Op("_monitor_loop", FALSE)
    /\ UNCHANGED <<daily_schedule, weekly_schedules, onetime_schedules, skipped_dates, file,
                   nextId, last_minute, polled, ui>>
    /\ stepUnchanged

\* The store as loaded for the monitor, the clock running on while either
\* thread is anywhere in its code.
ThreadDaily == [enabled |-> TRUE, hour |-> 0, minute |-> 2]
NextThreads ==
    \/ (sleep /\ now' \in {MakeTime(0, 0, m, 0) : m \in LoadMinutes})
    \/ \E m \in LoadMinutes : ui_add_onetime(ACTION_RESTART, strftime(MakeTime(0, 0, m, 0)))
    \/ \E i \in Indices(onetime_schedules) : ui_remove_onetime(onetime_schedules[i].id)
    \/ ui_clear_executed_onetime(ACTION_SHUTDOWN)
    \/ ui_assign
    \/ ui_on_daily_changed(ACTION_SHUTDOWN, ThreadDaily.enabled, ThreadDaily.hour, ThreadDaily.minute)
    \/ ui_cancel_all
    \/ ui_save_data
    \/ ui_save_write
    \/ poller_enter
    \/ poller_loop
    \/ poller_save_data
    \/ poller_save_write
    \/ poller_return

SpecThreads == InitMonitor /\ [][NextThreads]_vars

\* Both threads are between calls, the UI thread after a handler and the
\* monitor thread after a one-time trigger.
BothCompleted == ui.pc = "idle" /\ poller.pc = "idle" /\ ui.n > 0 /\ poller.n > 0

\* What the last handler did is in the store.
UiEffect ==
    CASE ui.last.op = "add_onetime" ->
           \E i \in Indices(onetime_schedules) : onetime_schedules[i].id = ui.last.arg
      [] ui.last.op \in {"remove_onetime", "clear_executed_onetime"} ->
           \A i \in Indices(onetime_schedules) : onetime_schedules[i].id \in ui.kept
      [] ui.last.op = "_on_daily_changed" ->
           daily_schedule[ui.last.arg[1]] = ui.last.arg[2]
      [] ui.last.op = "skip" -> InSeq(ui.last.arg, skipped_dates)
      [] OTHER -> TRUE

\* What the last trigger did is in the store: the entry, if it is still
\* there, is executed.
PollerEffect ==
    \A i \in Indices(onetime_schedules) :
        onetime_schedules[i].id = poller.id => onetime_schedules[i].executed

FileIsStore ==
    file = snapshot(daily_schedule, weekly_schedules, onetime_schedules, skipped_dates, debug_mode)

\* C29: however the statements of a handler on the UI thread and of a
\* one-time trigger on the monitor thread interleave, once both have
\* returned the store holds what each of them did and the state file holds
\* the store.
C29_NoLostUpdate == BothCompleted => UiEffect /\ PollerEffect /\ FileIsStore

\* ------------------------------------------------ a sync that fails
\* urlopen raises URLError or runs into its timeout: the request has not
\* reached the device, or the device has handled it and the reply has not
\* come back.  The except branch of _sync_worker hands the failure to the
\* log and the thread ends.
_sync_worker_retry ==
    /\ request # NoMessage \/ response # NoMessage
    /\ request' = request
    /\ response' = NoMessage
    /\ lastOp' = Op("_sync_worker", TRUE)
    /\ result' = NoResult
    /\ UNCHANGED <<now, storeVars, threadVars, monitorVars, gateVars, picoVars, deviceVars>>
_sync_worker_except ==
    /\ request # NoMessage \/ response # NoMessage
    /\ request' = NoMessage
    /\ response' = NoMessage
    /\ lastOp' = Op("_sync_worker", TRUE)
    /\ result' = NoResult
    /\ UNCHANGED <<now, storeVars, threadVars, monitorVars, gateVars, picoVars, deviceVars>>

NextNetwork == NextSync \/ _sync_worker_except

SpecNetwork == InitSync /\ [][NextNetwork]_vars

\* The request the desktop would post from the wake-up settings `pico`.
PostOf(pico) ==
    post_data(pico, IF pico.startup_daily.enabled THEN 1 ELSE 0,
              pico.startup_daily.hour, pico.startup_daily.minute)

\* C30: a step in which the worker gives up a sync (urlopen raised, or the
\* reply was neither a snapshot nor "OK") leaves the wake-up settings, the
\* state file and the device as they are and leaves no request under way;
\* the settings are those saved when the request was made, and a request
\* that was lost on its way is the one made from them.  A request gets
\* under way only by _sync_to_pico, the handler of the user's button.
C30_FailureOnlyLogged ==
    [][/\ lastOp'.op = "_sync_worker" /\ lastOp'.rejected =>
             /\ pico_settings' = pico_settings
             /\ file' = file
             /\ file.pico_settings = pico_settings
             /\ request # NoMessage => request.args = PostOf(pico_settings)
             /\ request' = NoMessage /\ response' = NoMessage
             /\ UNCHANGED deviceVars
       /\ request' # NoMessage /\ request' # request =>
             lastOp'.op = "_sync_to_pico" /\ ~lastOp'.rejected]_vars

\* The device has taken ten of the eleven weekly entries sent to it, its
\* reply with the snapshot was lost, and the desktop still holds eleven.
C30_Witness ==
    /\ lastOp.op = "_sync_worker" /\ lastOp.rejected
    /\ firmware = "GAS"
    /\ request = NoMessage /\ response = NoMessage
    /\ Len(weeklySchedules) = Capacity
    /\ Len(pico_settings.startup_weekly) > Capacity

\* ------------------------------------------------------------ cancel next
\* What _cancel_all does to the store for the event ev the resolver
\* returns: a one-time entry is taken out of the list, the timestamp of a
\* weekly or daily occurrence is appended to the skipped dates and the
\* recurring entries stay.
CancelActsOn(ev) ==
    IF ev.dt = -1 THEN UNCHANGED <<onetime_schedules, weekly_schedules, daily_schedule, skipped_dates>>
    ELSE IF ev.type = "onetime"
    THEN /\ onetime_schedules' = SelectSeq(onetime_schedules, LAMBDA s : s.id # ev.id)
         /\ UNCHANGED <<weekly_schedules, daily_schedule, skipped_dates>>
    ELSE /\ skipped_dates' = Append(skipped_dates, strftime(ev.dt))
         /\ UNCHANGED <<onetime_schedules, weekly_schedules, daily_schedule>>

\* No later check triggers a cancelled occurrence: a one-time trigger is of
\* an entry in the store, and a weekly or daily trigger is not in a minute
\* among the skipped dates.
CancelledStaysQuiet ==
    result'.called /\ result'.ret =>
        IF result'.kind = "onetime"
        THEN \E i \in Indices(onetime_schedules) : onetime_schedules[i].id = result'.id
        ELSE ~InSeq(strftime(now), skipped_dates)

\* C31 as stated: after a cancel-next the resolver returns no event or an
\* event with a later timestamp than the cancelled one.
C31_NextEventIsLater ==
    [][lastOp'.op = "_cancel_all" /\ get_next_event_info(now).dt # -1 =>
          \E ev \in {get_next_event_info(now)}, nx \in {get_next_event_info(now)'} :
              /\ CancelActsOn(ev)
              /\ nx.dt = -1 \/ nx.dt > ev.dt]_vars

\* C31: cancel-next takes the one-time entry the resolver returns out of
\* the store, or appends the timestamp of the weekly or daily occurrence it
\* returns to the skipped dates and leaves the recurring entries; no later
\* check triggers the cancelled occurrence; and the resolver then returns
\* no event or another event that is not earlier: a later one, or one of
\* another entry at the same timestamp when the cancelled event was a
\* one-time entry.
C31_CancelTakesNextEvent ==
    [][/\ lastOp'.op = "_cancel_all" /\ get_next_event_info(now).dt # -1 =>
             \E ev \in {get_next_event_info(now)}, nx \in {get_next_event_info(now)'} :
                 /\ CancelActsOn(ev)
                 /\ nx # ev
                 /\ nx.dt = -1 \/ nx.dt > ev.dt
                       \/ (nx.dt = ev.dt /\ ev.type = "onetime"
                             /\ <<nx.type, nx.id>> # <<ev.type, ev.id>>)
       /\ CancelledStaysQuiet]_vars

\* A weekly occurrence was skipped, the clock has reached its minute and
\* the check there has suppressed it, with the weekly entry still in the
\* store.
C31_Witness ==
    /\ result.called /\ result.skipped /\ result.kind = "weekly"
    /\ InSeq(strftime(now), skipped_dates)
    /\ \E i \in Indices(weekly_schedules) : weekly_schedules[i].id = result.id


\* ---------------------------------------------------------------------
\* A run with skips, edits of the store and syncs (C32).
\* ---------------------------------------------------------------------

\* The application started with the default settings and a paired device,
\* at Monday 00:00:00.
InitSkips ==
    /\ now = MakeTime(0, 0, 0, 0)
    /\ Started(SmallPico)
    /\ Setup("GAS")

\* The instants of the run: the minute of the entries, a second into it, and
\* the same minute a day later.
SkipsClock == {MakeTime(0, 0, 1, 0), MakeTime(0, 0, 1, 1), MakeTime(1, 0, 1, 0)}

\* The operations of a run: the monitor, cancel-next, the edits of the
\* store and a sync with its answer.
NextSkips ==
    \/ (sleep /\ now' \in SkipsClock)
    \/ _monitor_loop
    \/ (CanSkip(MaxSkips) /\ _cancel_all)
    \/ _on_daily_changed(ACTION_SHUTDOWN, TRUE, 0, 1)
    \/ (nextId <= MaxId /\ _add_onetime(ACTION_SHUTDOWN, 0, 0, 1))
    \/ \E id \in 1..MaxId : _remove_selected_onetime(id)
    \/ _clear_executed_onetime(ACTION_SHUTDOWN)
    \/ /\ request = NoMessage /\ response = NoMessage /\ nextId <= MaxUuid
       /\ _sync_to_pico(1, 0, 1)
    \/ (request # NoMessage /\ handleUpdateSchedule("app", request.args))
    \/ _update_from_pico_response

SpecSkips == InitSkips /\ [][NextSkips]_vars

\* new continues old: everything of old is in new, in its place.
Grows(old, new) ==
    /\ Len(old) <= Len(new)
    /\ SubSeq(new, 1, Len(old)) = old

\* C32: during a run no operation takes a timestamp off skipped_dates: every
\* step of the monitor, of cancel-next, of an edit of the store and of a
\* sync leaves the list as it was or longer at its end, and the timestamp
\* by which a check has just suppressed an occurrence is still in it.
C32_SkipSetOnlyGrows ==
    [][/\ Grows(skipped_dates, skipped_dates')
       /\ result'.called /\ result'.skipped => InSeq(strftime(now), skipped_dates')]_vars

\* C32 witness: a sync was answered and applied after the monitor's pass
\* in a skipped minute, and the timestamp of that minute is still there.
C32_Witness ==
    /\ lastOp.op = "_update_from_pico_response"
    /\ polled # -1 /\ InSeq(polled, skipped_dates)
    /\ now >= strptime(polled)


\* ---------------------------------------------------------------------
\* The resolver and the monitor (C33).
\* ---------------------------------------------------------------------

\* The first second of the minute of t.
MinuteStart(t) == strptime(strftime(t))

\* C33: the resolver and the monitor agree. At every check of the monitor,
\* take the answer (T, kind, action, id) of get_next_event_info one second
\* before the minute of the check, on the store of the check: when the check
\* triggers, it triggers that event and T is the minute of the check (not
\* an earlier minute, not another entry); when T is the minute of the
\* check, the check triggers (not suppressed).
C33_ResolverMonitorAgree ==
    [][lastOp'.op = "_monitor_loop" /\ result'.called =>
          \E ev \in {get_next_event_info(MinuteStart(now) - 1)} :
              /\ result'.ret => /\ ev.dt = MinuteStart(now)
                                /\ ev.type = result'.kind
                                /\ ev.action = result'.action
                                /\ ev.id = result'.id
              /\ ev.dt = MinuteStart(now) => result'.ret]_vars


\* ---------------------------------------------------------------------
\* From the trigger to the dialog (C34).
\* ---------------------------------------------------------------------

\* C34: every trigger of the monitor made with debug mode off leads to
\* exactly one confirmation for the triggered action: the check sets the
\* pending attributes to its action and trigger and queues one
\* _show_confirm_dialog; while that call is queued no other step changes
\* the pending attributes (no later trigger overwrites them, cancel-next
\* does not delete the flag); and the queued call finds the flag and opens
\* one dialog with the pending action and trigger.
C34_TriggerOpensItsDialog ==
    [][/\ lastOp'.op = "_monitor_loop" /\ result'.called /\ result'.ret /\ ~debug_mode =>
             /\ pending'.active /\ pending'.action = result'.action
             /\ showQueued' = showQueued + 1
       /\ showQueued > 0 /\ lastOp'.op # "_show_confirm_dialog" => pending' = pending
       /\ lastOp'.op = "_show_confirm_dialog" =>
             /\ pending.active
             /\ dialogs' = Append(dialogs, dialogs'[Len(dialogs')])
             /\ dialogs'[Len(dialogs')].action = pending.action
             /\ dialogs'[Len(dialogs')].trigger = pending.trigger
             /\ dialogs'[Len(dialogs')].open]_vars


\* ---------------------------------------------------------------------
\* Several syncs in flight (C35).
\* ---------------------------------------------------------------------

\* The sync requests of one run.
MaxWorkers == 2

\* A thread started for _sync_worker(url, data); overlap tells whether
\* another one had not finished when it was started.
Worker(req, overlap) == [st |-> "started", data |-> req, body |-> NoMessage, overlap |-> overlap]

\* A worker is inside urlopen: its request is with the device or the reply
\* is on its way back.
Posted == \E i \in Indices(workers) : workers[i].st = "posted"

workerStep(name) ==
    /\ lastOp' = Op(name, FALSE)
    /\ result' = NoResult
    /\ UNCHANGED <<now, storeVars, ui, poller, monitorVars, gateVars, picoVars, deviceVars>>

\* threading.Thread(target=self._sync_worker, args=(url, data)).start(), the
\* last statement of _sync_to_pico: the thread holds the data built from
\* the settings at the click.
Thread_start ==
    /\ request # NoMessage /\ ~Posted
    /\ workers' = Append(workers,
                         Worker(request, \E j \in Indices(workers) : workers[j].st # "done"))
    /\ request' = NoMessage
    /\ UNCHANGED response
    /\ workerStep("Thread_start")

\* urllib.request.urlopen(req, timeout=10) of worker i: its request is the
\* one the device's single-threaded server takes next.
urlopen(i) ==
    /\ workers[i].st = "started" /\ ~Posted
    /\ request = NoMessage /\ response = NoMessage
    /\ request' = workers[i].data
    /\ workers' = [workers EXCEPT ![i].st = "posted"]
    /\ UNCHANGED response
    /\ workerStep("urlopen")

\* body = res.read().decode('utf-8') of worker i.
res_read(i) ==
    /\ workers[i].st = "posted" /\ response # NoMessage
    /\ workers' = [workers EXCEPT ![i].st = "read", ![i].body = response]
    /\ response' = NoMessage
    /\ UNCHANGED request
    /\ workerStep("res_read")

\* self.after(0, ...) of worker i and the UI thread's taking of the queued
\* call: the body the worker read is what the callback gets.
after(i) ==
    /\ workers[i].st = "read" /\ ~Posted
    /\ request = NoMessage /\ response = NoMessage
    /\ response' = workers[i].body
    /\ workers' = [workers EXCEPT ![i].st = "done"]
    /\ UNCHANGED request
    /\ workerStep("after")

InitWorkers ==
    /\ now = MakeTime(0, 0, 1, 0)
    /\ \E pico \in {SmallPico, LargePico} : Started(pico)
    /\ Setup("GAS")

\* The user syncs with the daily wake-up on or off; every request gets a
\* thread of its own, the device serves one request at a time, and the
\* threads reach urlopen and after(0, ...) in any order.
NextWorkers ==
    \/ \E d \in SyncDaily :
          /\ request = NoMessage /\ response = NoMessage /\ ~Posted
          /\ Len(workers) < MaxWorkers /\ nextId <= MaxUuid
          /\ _sync_to_pico(d[1], d[2], d[3])
    \/ Thread_start
    \/ \E i \in Indices(workers) : urlopen(i)
    \/ (Posted /\ request # NoMessage /\ handleUpdateSchedule("app", request.args))
    \/ \E i \in Indices(workers) : res_read(i)
    \/ \E i \in Indices(workers) : after(i)
    \/ (~Posted /\ _update_from_pico_response)

SpecWorkers == InitWorkers /\ [][NextWorkers]_vars

\* Every request has completed and every response has been applied, and
\* at least two of the requests were in flight at once.
AllApplied ==
    /\ request = NoMessage /\ response = NoMessage
    /\ \A i \in Indices(workers) : workers[i].st = "done"
    /\ \E i \in Indices(workers) : workers[i].overlap

\* C35: with several sync requests in flight at once, once every request
\* has completed and every response has been applied the desktop's wake-up
\* settings equal the device's schedule, whatever the order in which the
\* device took the requests and the order in which the responses were
\* applied.
C35_CacheEqualsDevice ==
    AllApplied =>
        CacheMatches(pico_settings, getScheduleJSON(dailyWakeup, weeklySchedules, onetimeSchedules))


\* ---------------------------------------------------------------------
\* One entry sent again and again (C36).
\* ---------------------------------------------------------------------

\* Bulk updates that all carry the target's address and the one-time entry
\* of 2024-01-01 00:01 and nothing else that wakes: once, twice in one list,
\* and as the web page marks it.
WithMac == [d_en |-> Str(0), d_h |-> Str(7), d_m |-> Str(0), mac |-> MAC_COLONS, onetime |-> <<>>]
ResendRequests ==
    {[WithMac EXCEPT !.onetime = batch] :
        batch \in {FirstItem, FirstItem \o FirstItem,
                   Item(<<"2024", "1", "1", "0", "1", "web">>)}}

NextResend ==
    \/ \E args \in ResendRequests : handleUpdateSchedule("other", args)
    \/ checkSchedule
    \/ millis

SpecResend == InitWake /\ [][NextResend]_vars

\* C36: over any sequence of checks and bulk updates that send the same
\* one-time entry again, the device broadcasts the wake signal for it at
\* most once.
C36_OneBroadcast == wolSent <= 1 /\ udp <= 1

\* C36 witness: the entry has fired, was sent again in its own minute and
\* stands as not executed, and the check made after that has broadcast
\* nothing.
C36_Witness ==
    /\ lastOp.op = "checkSchedule"
    /\ wolSent = 1 /\ udp = 1
    /\ now = MakeTime(0, 0, 1, 0)
    /\ onetimeSchedules # <<>>
    /\ \A i \in Indices(onetimeSchedules) : ~onetimeSchedules[i].executed


\* ---------------------------------------------------------------------
\* Debug mode and the store (C37).
\* ---------------------------------------------------------------------

\* What a check at t returns, read from the entries, the skipped dates and
\* the clock alone.
Returned(t) ==
    LET m == first_match(t)
        Res(ret, kind, action, id) ==
            [called |-> TRUE, ret |-> ret, kind |-> kind, action |-> action, id |-> id,
             skipped |-> ~ret]
    IN  IF m[1] = "onetime"
        THEN [Res(TRUE, "onetime", onetime_schedules[m[2]].action, onetime_schedules[m[2]].id)
                 EXCEPT !.skipped = FALSE]
        ELSE IF m[1] = "weekly"
        THEN Res(~is_skipped(t), "weekly", weekly_schedules[m[2]].action, weekly_schedules[m[2]].id)
        ELSE IF m[1] = "daily"
        THEN Res(~is_skipped(t), "daily", DailyOrder[m[2]], 0)
        ELSE [NoResult EXCEPT !.called = TRUE]

\* The one-time entries a check at t leaves, read in the same way.
Flagged(t) ==
    LET m == first_match(t)
    IN  IF m[1] = "onetime" THEN [onetime_schedules EXCEPT ![m[2]].executed = TRUE]
        ELSE onetime_schedules

\* C37: debug mode does not influence the store. What check_and_execute
\* returns and the store it leaves (entries, executed flags, skipped dates)
\* are given by the store and the clock before the call, the same with
\* debug mode on and off; the calls differ only in the pending attributes,
\* which a trigger sets with debug mode off and leaves alone with it on.
C37_DebugLeavesStoreAlone ==
    [][lastOp'.op = "_monitor_loop" /\ result'.called =>
          \E r \in {Returned(now)}, o \in {Flagged(now)} :
              /\ result' = r
              /\ onetime_schedules' = o
              /\ UNCHANGED <<daily_schedule, weekly_schedules, skipped_dates, nextId, debug_mode>>
              /\ pending' = IF r.ret /\ ~debug_mode
                            THEN [pending' EXCEPT !.active = TRUE, !.action = r.action]
                            ELSE pending]_vars

\* C37 witness: with debug mode on a check has triggered a one-time entry:
\* the entry is marked executed in memory and in the state file, and
\* nothing is pending.
C37_Witness ==
    /\ debug_mode /\ result.called /\ result.ret /\ result.kind = "onetime"
    /\ \E i \in Indices(onetime_schedules) :
          /\ onetime_schedules[i].id = result.id /\ onetime_schedules[i].executed
          /\ file.onetime[i].executed
    /\ ~pending.active


\* ---------------------------------------------------------------------
\* Deleting by index on the device (C38).
\* ---------------------------------------------------------------------

\* Delete requests with the first three indexes, the index one past the
\* last slot, and no index.
IndexForms == {[idx |-> Str(i)] : i \in {0, 1, 2, Capacity}} \cup {[none |-> <<>>]}

\* Lists of one-time and of weekly entries that differ from each other.
ListRequests ==
    {WithOnetime(FirstItem \o Item(<<"2024", "1", "2", "0", "1", "web">>) \o ThirdItem),
     WithWeekly(Item(<<"0", "0", "1">>) \o Item(<<"1", "0", "1">>) \o Item(<<"2", "0", "1">>)),
     LargeRequest}

InitDelete ==
    /\ now = MakeTime(0, 0, 1, 0)
    /\ Started(DefaultPico)
    /\ Setup("GAS")

NextDelete ==
    \/ \E args \in ListRequests : handleUpdateSchedule("other", args)
    \/ \E args \in IndexForms : handleDeleteWeekly(args)
    \/ \E args \in IndexForms : handleDeleteOneTime(args)

SpecDelete == InitDelete /\ [][NextDelete]_vars

\* left is before without its entry at idx (counted from 0): one entry
\* fewer, the others as they were and in their order. With idx not an index
\* of before, left is before.
Deleted(before, left, args) ==
    IF Has(args, "idx") /\ toInt(args.idx) \in 0..(Len(before) - 1)
    THEN /\ Len(left) = Len(before) - 1
         /\ \A i \in 1..Len(left) :
               left[i] = IF i <= toInt(args.idx) THEN before[i] ELSE before[i + 1]
    ELSE left = before

\* C38: a delete request with an index idx in 0..count-1 takes exactly the
\* entry at idx out of its list, the count goes down by one and the other
\* entries keep their fields and their order; a request with an index out
\* of range or with none leaves the list and the count as they were. The
\* other list is not touched.
C38_DeleteRemovesIndexed ==
    [][\A args \in IndexForms :
          /\ lastOp'.op = "handleDeleteWeekly" /\ handleDeleteWeekly(args) =>
                /\ Deleted(weeklySchedules, weeklySchedules', args)
                /\ onetimeSchedules' = onetimeSchedules
          /\ lastOp'.op = "handleDeleteOneTime" /\ handleDeleteOneTime(args) =>
                /\ Deleted(onetimeSchedules, onetimeSchedules', args)
                /\ weeklySchedules' = weeklySchedules]_vars

\* C38 witness: of three one-time entries on three days the one in the
\* middle was deleted: the first and the third are left, in that order.
C38_Witness ==
    /\ lastOp.op = "handleDeleteOneTime"
    /\ Len(onetimeSchedules) = 2
    /\ onetimeSchedules[1].day = 1 /\ onetimeSchedules[2].day = 3
    /\ onetimeSchedules[2].source = "web"

====
